---- MODULE Spec2Model ----
(***************************************************************************)
(* Export coordinator of the ChatGPT exporter extension.                   *)
(*                                                                         *)
(* Three contexts exchange messages:                                       *)
(*   popup           - startExport / resumeExport / cancelExport           *)
(*   service worker  - onMessage handlers, chrome.storage.local            *)
(*   content script  - onMessage RUN_EXPORT / STOP_EXPORT, executeExport   *)
(*                                                                         *)
(* Every await of the code is a suspension point: the code between two     *)
(* awaits is one action.  chrome.storage.local get / set / remove of one   *)
(* handler are separate steps that interleave with everything else.        *)
(***************************************************************************)
EXTENDS Bags, FiniteSets, Integers, Sequences, TLC

\* ------------------------------------------------------------------ bounds
\* conversations of the account are numbered 1..NumIds
NumIds == 2
\* popup clicks on Export / Resume
MaxStarts == 2
\* popup clicks on Cancel / Discard
MaxCancels == 1
\* executeExport sends its next burst of EXPORT_PROGRESS messages only while fewer
\* than MaxPending handlers of earlier messages are still in flight
MaxPending == 1

\* ------------------------------------------------------------- data values
Ids == 1..NumIds

AllIdsList == [k \in 1..NumIds |-> k]

\* the lists discovery can return: windows of the account's list
IdLists ==
  {<<>>} \cup {SubSeq(AllIdsList, w[1], w[2]) : w \in {v \in Ids \X Ids : v[1] <= v[2]}}

Range(s) == {s[k] : k \in 1..Len(s)}

\* ConversationMeta.title as discovery reports it; conversation 1 has a blank title
TitleOf(id) == IF id = 1 THEN "" ELSE "Chat"

\* message of the error fetchAndNormalizeConversation throws (the id left out)
FetchError == "Unable to extract conversation from API or DOM"

CancelError == "Export cancelled"

\* chrome.storage.local has no value under STATE_KEYS.RESUME
NoState == [status |-> "none", allIds |-> <<>>, completedIds |-> <<>>]

\* the value handleStartExport persists
FreshState == [status |-> "started", allIds |-> <<>>, completedIds |-> <<>>]

\* payload of an EXPORT_PROGRESS message, as far as the service worker reads it
Progress(phase) ==
  [phase |-> phase, hasAllIds |-> FALSE, allIds |-> <<>>, lastCompletedId |-> 0]

ProgressAllIds(ids) ==
  [phase |-> "discovering", hasAllIds |-> TRUE, allIds |-> ids, lastCompletedId |-> 0]

ProgressCheckpoint(id) ==
  [phase |-> "exporting", hasAllIds |-> FALSE, allIds |-> <<>>, lastCompletedId |-> id]

\* locals of an executeExport call that has not started
IdleRun ==
  [pc |-> "idle", cancelled |-> FALSE, metas |-> <<>>, failing |-> {},
   i |-> 0, completedIds |-> {}, records |-> <<>>, failures |-> <<>>,
   downloadOk |-> FALSE, resumed |-> FALSE, checkpoint |-> NoState]

Active == {"discovering", "awaitResume", "fetching", "images",
           "awaitPrefs", "packaging", "dataurl", "awaitDownload", "answered"}

VARIABLES
  resumeState,   \* chrome.storage.local[STATE_KEYS.RESUME]
  pendingGet,    \* EXPORT_PROGRESS handlers waiting for storage.get (bag of payloads)
  pendingSet,    \* EXPORT_PROGRESS handlers waiting for storage.set (bag of states)
  pendingRemove, \* storage.remove calls issued by TRIGGER_DOWNLOAD, not yet landed
  start,         \* the START_EXPORT in flight in the service worker
  cancel,        \* the CANCEL_EXPORT in flight in the service worker
  nStarts,       \* popup start / resume clicks so far
  nCancels,      \* popup cancel clicks so far
  activeRun,     \* content script: activeRun (0 is null)
  runs,          \* content script: the executeExport calls, by start number
  reported,      \* per watched run, the phases of the progress events it has sent
  mapping,       \* extractMessages: the raw mapping (node graph) it is given
  walk,          \* extractMessages: roots still to walk, current node, visited, ordered
  page,          \* fetchAndNormalizeConversation: API answer and rendered DOM
  fetched,       \* fetchAndNormalizeConversation: what the call returned or threw
  assets,        \* fetchConversationImages: image parts and what each asset fetch gives
  rendered,      \* images returned, and what renderPart makes of each image part
  call           \* a call of a pure library function: its arguments and what it returned

\* the state of the library functions, which the coordinator never touches
libVars == <<mapping, walk, page, fetched, assets, rendered, call>>

\* the library state of extraction and images, which the pure functions never touch
extractVars == <<mapping, walk, page, fetched, assets, rendered>>

coordVars == <<resumeState, pendingGet, pendingSet, pendingRemove, start, cancel,
               nStarts, nCancels, activeRun, runs, reported>>

vars == <<resumeState, pendingGet, pendingSet, pendingRemove, start, cancel,
          nStarts, nCancels, activeRun, runs, reported,
          mapping, walk, page, fetched, assets, rendered, call>>

IdleStart == [stage |-> "idle", resumed |-> FALSE, checkpoint |-> NoState]

\* extractMessages has not been called
IdleWalk == [pc |-> "idle", roots |-> <<>>, node |-> 0, trail |-> <<>>, ordered |-> <<>>]

\* fetchAndNormalizeConversation has not been called
NoPage == [api |-> "none", nodes |-> <<>>, dom |-> <<>>]

NotFetched == [status |-> "idle", messages |-> <<>>]

\* fetchConversationImages has not been called
NoAssets == [parts |-> <<>>, outcome |-> <<>>]

NotRendered == [pc |-> "idle", next |-> 0, seen |-> {}, images |-> <<>>, html |-> <<>>]

\* no pure function has been called
NoCall == [pc |-> "idle"]

\* no extraction or image function is running
ExtractIdle ==
  /\ mapping = <<>>
  /\ walk = IdleWalk
  /\ page = NoPage
  /\ fetched = NotFetched
  /\ assets = NoAssets
  /\ rendered = NotRendered

\* no library function is running
LibIdle == ExtractIdle /\ call = NoCall

\* the coordinator after the extension and the page have loaded
CoordIdle ==
  /\ resumeState = NoState
  /\ pendingGet = EmptyBag
  /\ pendingSet = EmptyBag
  /\ pendingRemove = 0
  /\ start = IdleStart
  /\ cancel = "idle"
  /\ nStarts = 0
  /\ nCancels = 0
  /\ activeRun = 0
  /\ runs = [r \in 1..MaxStarts |-> IdleRun]
  /\ reported = <<>>

Init == CoordIdle /\ LibIdle

\* ------------------------------------------------------- message plumbing
InFlight == BagCardinality(pendingGet) + BagCardinality(pendingSet)

CanSend(n) == n = 0 \/ InFlight < MaxPending

RECURSIVE SendAll(_, _)
SendAll(bag, msgs) ==
  IF msgs = <<>> THEN bag
  ELSE SendAll(bag (+) SetToBag({Head(msgs)}), Tail(msgs))

RemoveOne(bag, x) == bag (-) SetToBag({x})

Terminal == {"done", "error"}

\* the phases seen so far, then those of msgs; a repeated non-terminal phase
\* (one more page of ids, one more item) is kept once
RECURSIVE Phases(_, _)
Phases(seen, msgs) ==
  IF msgs = <<>> THEN seen
  ELSE LET phase == Head(msgs).phase
       IN  IF seen # <<>> /\ seen[Len(seen)] = phase /\ phase \notin Terminal
             THEN Phases(seen, Tail(msgs))
             ELSE Phases(Append(seen, phase), Tail(msgs))

\* sendProgress / sendMessage of run r, as its watcher records them
Report(r, msgs) ==
  IF r \in DOMAIN reported THEN [reported EXCEPT ![r] = Phases(@, msgs)] ELSE reported

\* ------------------------------------------------- executeExport, step by step
\* A step function maps the locals of a suspended executeExport to the locals at
\* its next await, and the EXPORT_PROGRESS messages sent on the way.
Step(rn, msgs) == [run |-> rn, msgs |-> msgs]

\* the function has returned: its locals and its token are gone
Finished == [IdleRun EXCEPT !.pc = "finished"]

\* an outer catch that reports the error and then reports it once more
Throw_Twice(rn, msgs) == Step(Finished, msgs \o <<Progress("error"), Progress("error")>>)

\* an outer catch that returns without reporting anything
Throw_Silent(rn, msgs) == Step(Finished, msgs)

\* outer catch of executeExport: one terminal progress event with phase error
Throw(rn, msgs) == Step(Finished, Append(msgs, Progress("error")))

\* executeExport up to its first await (scope "current" or "full": no selection prompt)
StartRun(resumed, checkpoint) ==
  Step([IdleRun EXCEPT !.pc = "discovering", !.resumed = resumed,
                       !.checkpoint = checkpoint],
       <<Progress("init")>>)

\* from the return of discoverConversations to the await of GET_RESUME_STATE
AfterDiscovery(rn, metas, failing) ==
  IF rn.cancelled THEN Throw(rn, <<>>)
  ELSE Step([rn EXCEPT !.pc = "awaitResume", !.metas = metas, !.failing = failing],
            <<Progress("discovering"), ProgressAllIds(metas)>>)

\* the for loop from index j on, up to the next await
RECURSIVE LoopFrom(_, _, _)
LoopFrom(rn, j, msgs) ==
  IF j > Len(rn.metas)
    THEN Step([rn EXCEPT !.pc = "awaitPrefs", !.i = 0], Append(msgs, Progress("packaging")))
  ELSE IF rn.cancelled THEN Throw(rn, msgs)
  ELSE IF rn.metas[j] \in rn.completedIds THEN LoopFrom(rn, j + 1, msgs)
  ELSE Step([rn EXCEPT !.pc = "fetching", !.i = j], msgs)

\* from the answer to GET_RESUME_STATE on
OnResumeState(rn, state) ==
  IF rn.cancelled THEN Throw(rn, <<>>)
  ELSE LoopFrom([rn EXCEPT !.completedIds = Range(state.completedIds)], 1, <<>>)

FailureRecord(id, error) ==
  [id |-> id, title |-> IF TitleOf(id) = "" THEN "Untitled Chat" ELSE TitleOf(id),
   error |-> error]

\* a loop body without the inner catch: the item's error reaches the outer catch
ItemFailed_Abort(rn, error) == Throw(rn, <<>>)

\* inner catch of the loop body, then the rest of the iteration
ItemFailed(rn, error) ==
  LoopFrom([rn EXCEPT !.failures = Append(@, FailureRecord(rn.metas[rn.i], error))],
           rn.i + 1, <<Progress("exporting")>>)

\* from the settling of loadConversationForExport on
OnFetchDone(rn) ==
  IF rn.metas[rn.i] \in rn.failing THEN ItemFailed(rn, FetchError)
  ELSE IF rn.cancelled THEN ItemFailed(rn, CancelError)
  ELSE Step([rn EXCEPT !.pc = "images"], <<>>)

\* a loop body that checkpoints the conversation and leaves it out of records
OnImagesDone_Forget(rn) ==
  IF rn.cancelled THEN ItemFailed(rn, CancelError)
  ELSE LoopFrom(rn, rn.i + 1, <<ProgressCheckpoint(rn.metas[rn.i]), Progress("exporting")>>)

\* from the return of fetchConversationImages on
OnImagesDone(rn) ==
  IF rn.cancelled THEN ItemFailed(rn, CancelError)
  ELSE LoopFrom([rn EXCEPT !.records = Append(@, rn.metas[rn.i])], rn.i + 1,
                <<ProgressCheckpoint(rn.metas[rn.i]), Progress("exporting")>>)

\* executeExport without the throwIfCancelled that precedes packageZip
OnPrefsDone_NoPoll(rn) == Step([rn EXCEPT !.pc = "packaging"], <<>>)

\* from the answer to GET_PREFERENCES on
OnPrefsDone(rn) ==
  IF rn.cancelled THEN Throw(rn, <<>>)
  ELSE Step([rn EXCEPT !.pc = "packaging"], <<>>)

\* an executeExport whose outer catch swallows a packageZip rejection
OnPackageDone_Silent(rn, ok) ==
  IF ~ok THEN Step(Finished, <<>>)
  ELSE Step([rn EXCEPT !.pc = "dataurl"],
            [k \in 1..Len(rn.records) |-> Progress("packaging")])

\* from the settling of packageZip on; its onProgress fires once per record
OnPackageDone(rn, ok) ==
  IF ~ok THEN Throw(rn, <<>>)
  ELSE Step([rn EXCEPT !.pc = "dataurl"],
            [k \in 1..Len(rn.records) |-> Progress("packaging")])

\* from the return of blobToDataUrl to the await of TRIGGER_DOWNLOAD
OnDataUrlDone(rn) ==
  IF rn.cancelled THEN Throw(rn, <<>>)
  ELSE Step([rn EXCEPT !.pc = "awaitDownload"], <<>>)

\* the answer to TRIGGER_DOWNLOAD is on its way to the content script
OnDownloadAnswer(rn, ok) == Step([rn EXCEPT !.pc = "answered", !.downloadOk = ok], <<>>)

\* from the answer to TRIGGER_DOWNLOAD on (the answer's ok field is not read)
OnDownloadDone(rn) == Step(Finished, <<Progress("done")>>)

\* a .finally that clears activeRun whichever run the slot refers to
Commit_ClearAlways(r, step) ==
  /\ CanSend(Len(step.msgs))
  /\ runs' = [runs EXCEPT ![r] = step.run]
  /\ pendingGet' = SendAll(pendingGet, step.msgs)
  /\ reported' = Report(r, step.msgs)
  /\ activeRun' = IF step.run.pc = "finished" THEN 0 ELSE activeRun

\* run r moves to its next await; .finally clears activeRun when r has returned
Commit(r, step) ==
  /\ CanSend(Len(step.msgs))
  /\ runs' = [runs EXCEPT ![r] = step.run]
  /\ pendingGet' = SendAll(pendingGet, step.msgs)
  /\ reported' = Report(r, step.msgs)
  /\ activeRun' = IF step.run.pc = "finished" /\ activeRun = r THEN 0 ELSE activeRun

\* ------------------------------------------------------------------- popup
\* Export button -> startExport() -> START_EXPORT reaches the service worker
StartClick ==
  /\ start.stage = "idle"
  /\ nStarts < MaxStarts
  /\ nStarts' = nStarts + 1
  /\ start' = [stage |-> "set", resumed |-> FALSE, checkpoint |-> NoState]
  /\ UNCHANGED <<resumeState, pendingGet, pendingSet, pendingRemove, cancel,
                 nCancels, activeRun, runs>>
  /\ UNCHANGED <<reported, libVars>>

\* The popup is opened, checkResumeState shows the banner, and the Resume button ->
\* resumeExport(): GET_RESUME_STATE, then startExport(state.scope, state.formats)
ResumeClick ==
  /\ start.stage = "idle"
  /\ nStarts < MaxStarts
  /\ resumeState # NoState
  /\ resumeState.status \notin {"done", "cancelled"}
  /\ nStarts' = nStarts + 1
  /\ start' = [stage |-> "set", resumed |-> TRUE, checkpoint |-> resumeState]
  /\ UNCHANGED <<resumeState, pendingGet, pendingSet, pendingRemove, cancel,
                 nCancels, activeRun, runs>>
  /\ UNCHANGED <<reported, libVars>>

\* Cancel button -> cancelExport(), Discard button -> discardResume(): CANCEL_EXPORT
CancelClick ==
  /\ cancel = "idle"
  /\ nCancels < MaxCancels
  /\ nCancels' = nCancels + 1
  /\ cancel' = "remove"
  /\ UNCHANGED <<resumeState, pendingGet, pendingSet, pendingRemove, start,
                 nStarts, activeRun, runs>>
  /\ UNCHANGED <<reported, libVars>>

\* ---------------------------------------------------------- service worker
\* handleStartExport: await chrome.storage.local.set({resumeState})
HandleStartExportSet ==
  /\ start.stage = "set"
  /\ resumeState' = FreshState
  /\ start' = [start EXCEPT !.stage = "send"]
  /\ UNCHANGED <<pendingGet, pendingSet, pendingRemove, cancel, nStarts, nCancels,
                 activeRun, runs>>
  /\ UNCHANGED <<reported, libVars>>

\* a handleCancelExport that only stops the run and leaves the storage alone
HandleCancelExportRemove_Keep ==
  /\ cancel = "remove"
  /\ cancel' = "stop"
  /\ UNCHANGED <<resumeState, pendingGet, pendingSet, pendingRemove, start, nStarts,
                 nCancels, activeRun, runs>>
  /\ UNCHANGED <<reported, libVars>>

\* handleCancelExport: await chrome.storage.local.remove(resumeState)
HandleCancelExportRemove ==
  /\ cancel = "remove"
  /\ resumeState' = NoState
  /\ cancel' = "stop"
  /\ UNCHANGED <<pendingGet, pendingSet, pendingRemove, start, nStarts, nCancels,
                 activeRun, runs>>
  /\ UNCHANGED <<reported, libVars>>

\* what one EXPORT_PROGRESS handler makes of the state it read
ApplyProgress(state, p) ==
  LET s1 == IF p.hasAllIds THEN [state EXCEPT !.allIds = p.allIds] ELSE state
      s2 == IF p.phase \in {"exporting", "packaging"}
              THEN [s1 EXCEPT !.status = "in_progress"] ELSE s1
      s3 == IF /\ p.phase = "exporting"
               /\ p.lastCompletedId # 0
               /\ p.lastCompletedId \notin Range(s2.completedIds)
              THEN [s2 EXCEPT !.completedIds = Append(@, p.lastCompletedId)] ELSE s2
  IN  IF p.phase = "done" THEN [s3 EXCEPT !.status = "done"] ELSE s3

\* onMessage EXPORT_PROGRESS: chrome.storage.local.get resolves
ProgressGet(p) ==
  /\ pendingGet' = RemoveOne(pendingGet, p)
  /\ pendingSet' = IF resumeState = NoState THEN pendingSet
                   ELSE pendingSet (+) SetToBag({ApplyProgress(resumeState, p)})
  /\ UNCHANGED <<resumeState, pendingRemove, start, cancel, nStarts, nCancels,
                 activeRun, runs>>
  /\ UNCHANGED <<reported, libVars>>

\* onMessage EXPORT_PROGRESS: chrome.storage.local.set lands
ProgressSet(state) ==
  /\ pendingSet' = RemoveOne(pendingSet, state)
  /\ resumeState' = state
  /\ UNCHANGED <<pendingGet, pendingRemove, start, cancel, nStarts, nCancels,
                 activeRun, runs>>
  /\ UNCHANGED <<reported, libVars>>

\* onMessage TRIGGER_DOWNLOAD: void chrome.storage.local.remove(resumeState) lands
DownloadRemove ==
  /\ pendingRemove > 0
  /\ pendingRemove' = pendingRemove - 1
  /\ resumeState' = NoState
  /\ UNCHANGED <<pendingGet, pendingSet, start, cancel, nStarts, nCancels,
                 activeRun, runs>>
  /\ UNCHANGED <<reported, libVars>>

\* ---------------------------------------------------------- content script
\* onMessage RUN_EXPORT, sent by handleStartExport (a chatgpt.com tab is open)
RunExport ==
  /\ start.stage = "send"
  /\ start' = IdleStart
  /\ IF activeRun # 0 /\ ~runs[activeRun].cancelled
       THEN UNCHANGED <<runs, pendingGet, activeRun, reported>>
       ELSE LET step == StartRun(start.resumed, start.checkpoint)
            IN  /\ CanSend(Len(step.msgs))
                /\ runs' = [runs EXCEPT ![nStarts] = step.run]
                /\ pendingGet' = SendAll(pendingGet, step.msgs)
                /\ reported' = Report(nStarts, step.msgs)
                /\ activeRun' = nStarts
  /\ UNCHANGED <<resumeState, pendingSet, pendingRemove, cancel, nStarts, nCancels>>
  /\ UNCHANGED libVars

\* onMessage STOP_EXPORT, sent by handleCancelExport
StopExport ==
  /\ cancel = "stop"
  /\ cancel' = "idle"
  /\ runs' = IF activeRun # 0 THEN [runs EXCEPT ![activeRun].cancelled = TRUE] ELSE runs
  /\ UNCHANGED <<resumeState, pendingGet, pendingSet, pendingRemove, start,
                 nStarts, nCancels, activeRun>>
  /\ UNCHANGED <<reported, libVars>>

RunFrame == UNCHANGED <<resumeState, pendingSet, pendingRemove, start, cancel,
                        nStarts, nCancels, libVars>>

\* discoverConversations reports one more page of ids through onProgress
DiscoverProgress(r) ==
  /\ runs[r].pc = "discovering"
  /\ Commit(r, Step(runs[r], <<Progress("discovering")>>))
  /\ RunFrame

DiscoverDone(r) ==
  /\ runs[r].pc = "discovering"
  /\ \E metas \in IdLists : \E failing \in SUBSET Range(metas) :
       Commit(r, AfterDiscovery(runs[r], metas, failing))
  /\ RunFrame

\* onMessage GET_RESUME_STATE: the storage read is answered to the content script
ResumeStateDone(r) ==
  /\ runs[r].pc = "awaitResume"
  /\ Commit(r, OnResumeState(runs[r], resumeState))
  /\ RunFrame

FetchDone(r) ==
  /\ runs[r].pc = "fetching"
  /\ Commit(r, OnFetchDone(runs[r]))
  /\ RunFrame

ImagesDone(r) ==
  /\ runs[r].pc = "images"
  /\ Commit(r, OnImagesDone(runs[r]))
  /\ RunFrame

PrefsDone(r) ==
  /\ runs[r].pc = "awaitPrefs"
  /\ Commit(r, OnPrefsDone(runs[r]))
  /\ RunFrame

PackageDone(r) ==
  /\ runs[r].pc = "packaging"
  /\ \E ok \in BOOLEAN : Commit(r, OnPackageDone(runs[r], ok))
  /\ RunFrame

DataUrlDone(r) ==
  /\ runs[r].pc = "dataurl"
  /\ Commit(r, OnDataUrlDone(runs[r]))
  /\ RunFrame

\* a download callback that removes the state whether or not lastError is set
RemovesIssued_Always(ok) == 1

\* storage.remove calls the chrome.downloads.download callback issues: one when
\* chrome.runtime.lastError is unset (ok), none when it is set
RemovesIssued(ok) == IF ok THEN 1 ELSE 0

\* onMessage TRIGGER_DOWNLOAD: the chrome.downloads.download callback runs, with
\* (ok = FALSE) or without chrome.runtime.lastError, and answers the content script
DownloadCallback(r) ==
  /\ runs[r].pc = "awaitDownload"
  /\ \E ok \in BOOLEAN :
       /\ pendingRemove' = pendingRemove + RemovesIssued(ok)
       /\ Commit(r, OnDownloadAnswer(runs[r], ok))
  /\ UNCHANGED <<resumeState, pendingSet, start, cancel, nStarts, nCancels>>
  /\ UNCHANGED libVars

DownloadDone(r) ==
  /\ runs[r].pc = "answered"
  /\ Commit(r, OnDownloadDone(runs[r]))
  /\ RunFrame

Next ==
  \/ StartClick
  \/ ResumeClick
  \/ CancelClick
  \/ HandleStartExportSet
  \/ HandleCancelExportRemove
  \/ \E p \in BagToSet(pendingGet) : ProgressGet(p)
  \/ \E state \in BagToSet(pendingSet) : ProgressSet(state)
  \/ DownloadRemove
  \/ RunExport
  \/ StopExport
  \/ \E r \in 1..MaxStarts :
       \/ DiscoverProgress(r)
       \/ DiscoverDone(r)
       \/ ResumeStateDone(r)
       \/ FetchDone(r)
       \/ ImagesDone(r)
       \/ PrefsDone(r)
       \/ PackageDone(r)
       \/ DataUrlDone(r)
       \/ DownloadCallback(r)
       \/ DownloadDone(r)

Spec == Init /\ [][Next]_vars

\* ------------------------------------------------ the phases a run reports
\* Every run is watched from its first progress event on.
InitPhases ==
  /\ LibIdle
  /\ resumeState = NoState
  /\ pendingGet = EmptyBag
  /\ pendingSet = EmptyBag
  /\ pendingRemove = 0
  /\ start = IdleStart
  /\ cancel = "idle"
  /\ nStarts = 0
  /\ nCancels = 0
  /\ activeRun = 0
  /\ runs = [r \in 1..MaxStarts |-> IdleRun]
  /\ reported = [r \in 1..MaxStarts |-> <<>>]

SpecPhases == InitPhases /\ [][Next]_vars

\* ------------------------------------------------- packager: summary report
\* a report that gives the two counts and leaves out the failed conversations
BuildSummaryReport_CountsOnly(records, failures) ==
  [successful |-> Len(records), failed |-> Len(failures), lines |-> <<>>]

\* export-summary.txt: the Successful and Failed counts and one line
\* `- id ("title"): error` per failure
BuildSummaryReport(records, failures) ==
  [successful |-> Len(records),
   failed |-> Len(failures),
   lines |-> [k \in 1..Len(failures) |->
                [id |-> failures[k].id, title |-> failures[k].title,
                 error |-> failures[k].error]]]

\* the sequences over S of length up to n
RECURSIVE SeqsUpTo(_, _)
SeqsUpTo(S, n) ==
  IF n = 0 THEN {<<>>}
  ELSE LET shorter == SeqsUpTo(S, n - 1)
       IN  shorter \cup {Append(q, x) : q \in shorter, x \in S}

\* ------------------------------------------- schema: message extraction
\* what extractMessage makes of a mapping node, by the node's kind:
\*   "none"    node.message is missing             -> null
\*   "system"  author.role is "system"              -> null
\*   "empty"   extractContentParts returns no part  -> null
\*   "text"    a user message with one text part
NodeKinds == {"none", "system", "empty", "text"}

RoleOf(kind) ==
  IF kind = "system" THEN "system" ELSE IF kind = "empty" THEN "assistant" ELSE "user"

PartsOf(kind) == IF kind = "empty" THEN 0 ELSE 1

\* an extraction that keeps system messages
ExtractMessage_KeepSystem(id, node) ==
  IF node.kind = "none" THEN <<>>
  ELSE IF PartsOf(node.kind) = 0 THEN <<>>
  ELSE <<[id |-> id, role |-> RoleOf(node.kind), parts |-> PartsOf(node.kind)]>>

\* extractMessage(node): the empty sequence stands for null
ExtractMessage(id, node) ==
  IF node.kind = "none" THEN <<>>
  ELSE IF RoleOf(node.kind) = "system" THEN <<>>
  ELSE IF PartsOf(node.kind) = 0 THEN <<>>
  ELSE <<[id |-> id, role |-> RoleOf(node.kind), parts |-> PartsOf(node.kind)]>>

\* roots: nodes with no parent (0) or with a parent that is not a key of the mapping
Roots(m) ==
  SelectSeq([k \in 1..Len(m) |-> k],
            LAMBDA n : m[n].parent = 0 \/ m[n].parent \notin DOMAIN m)

\* a walk that follows the first child
LastChild_First(node) ==
  IF node.children = <<>> THEN 0 ELSE node.children[1]

\* children[children.length - 1], 0 for undefined
LastChild(node) ==
  IF node.children = <<>> THEN 0 ELSE node.children[Len(node.children)]

\* walk(node) with its visited set and its ordered array
RECURSIVE WalkFrom(_, _, _)
WalkFrom(m, n, acc) ==
  IF n \notin DOMAIN m \/ n \in acc.visited THEN acc
  ELSE LET here == [visited |-> acc.visited \cup {n},
                    ordered |-> acc.ordered \o ExtractMessage(n, m[n])]
       IN  IF LastChild(m[n]) \in DOMAIN m THEN WalkFrom(m, LastChild(m[n]), here)
           ELSE here

RECURSIVE WalkRoots(_, _, _)
WalkRoots(m, roots, acc) ==
  IF roots = <<>> THEN acc
  ELSE WalkRoots(m, Tail(roots), WalkFrom(m, Head(roots), acc))

ExtractMessages(m) == WalkRoots(m, Roots(m), [visited |-> {}, ordered |-> <<>>]).ordered

IsValidMessage(msg) == msg.parts > 0

\* validateConversation, as far as the messages go
ValidateMessages(msgs) == SelectSeq(msgs, IsValidMessage)

\* ------------------------------------- schema: extractMessages, step by step
\* nodes of the mapping
NumNodes == 3
\* children a node can list
MaxChildren == 2

Nodes == 1..NumNodes

\* children arrays: up to MaxChildren different node ids
ChildLists == {c \in SeqsUpTo(Nodes, MaxChildren) : \A j, k \in 1..Len(c) : c[j] = c[k] => j = k}

\* kinds of mapping nodes ("empty" is dropped by extractMessage like "none")
MappingKinds == {"none", "system", "text"}

\* any links at all: cycles, shared children, several roots, no root
Mappings == [Nodes -> [parent : 0..NumNodes, children : ChildLists, kind : MappingKinds]]

\* a walk without the visited set
Visit_NoGuard(w, m) ==
  IF w.node \notin DOMAIN m THEN [w EXCEPT !.pc = "roots", !.node = 0]
  ELSE LET here == [w EXCEPT !.trail = Append(@, w.node),
                             !.ordered = @ \o ExtractMessage(w.node, m[w.node])]
       IN  IF LastChild(m[w.node]) \in DOMAIN m
             THEN [here EXCEPT !.node = LastChild(m[w.node])]
             ELSE [here EXCEPT !.pc = "roots", !.node = 0]

\* one call of walk(node): return at once if the node is missing or visited, else
\* mark it, push its message, and call walk on the last child if the mapping has it
Visit(w, m) ==
  IF w.node \notin DOMAIN m \/ w.node \in Range(w.trail)
    THEN [w EXCEPT !.pc = "roots", !.node = 0]
  ELSE LET here == [w EXCEPT !.trail = Append(@, w.node),
                             !.ordered = @ \o ExtractMessage(w.node, m[w.node])]
       IN  IF LastChild(m[w.node]) \in DOMAIN m
             THEN [here EXCEPT !.node = LastChild(m[w.node])]
             ELSE [here EXCEPT !.pc = "roots", !.node = 0]

\* for (const root of roots) walk(root)
WalkRoot ==
  /\ walk.pc = "roots"
  /\ walk.roots # <<>>
  /\ walk' = [walk EXCEPT !.pc = "walk", !.node = Head(walk.roots), !.roots = Tail(@)]
  /\ UNCHANGED <<coordVars, call, mapping, page, fetched, assets, rendered>>

WalkNode ==
  /\ walk.pc = "walk"
  /\ walk' = Visit(walk, mapping)
  /\ UNCHANGED <<coordVars, call, mapping, page, fetched, assets, rendered>>

\* return ordered
WalkReturn ==
  /\ walk.pc = "roots"
  /\ walk.roots = <<>>
  /\ walk' = [walk EXCEPT !.pc = "done"]
  /\ UNCHANGED <<coordVars, call, mapping, page, fetched, assets, rendered>>

InitWalk ==
  /\ CoordIdle
  /\ mapping \in Mappings
  /\ walk = [IdleWalk EXCEPT !.pc = "roots", !.roots = Roots(mapping)]
  /\ page = NoPage
  /\ fetched = NotFetched
  /\ assets = NoAssets
  /\ rendered = NotRendered
  /\ call = NoCall

NextWalk == WalkRoot \/ WalkNode \/ WalkReturn

SpecWalk == InitWalk /\ [][NextWalk]_vars

\* ------------------------------- schema: fetchAndNormalizeConversation
\* nodes of an API payload of at most MaxNodes nodes in one chain
MaxNodes == 2
\* rendered message elements of the page
MaxElements == 2

\* the mapping of a conversation without branches: node k is the child of node k - 1
LinearMapping(kinds) ==
  [k \in 1..Len(kinds) |->
     [parent |-> k - 1,
      children |-> IF k < Len(kinds) THEN <<k + 1>> ELSE <<>>,
      kind |-> kinds[k]]]

\* [data-message-author-role] elements: the attribute, and how many parts
\* (text, code, img) the element yields
DomRoles == {"user", "assistant", "system"}

DomElements == [role : DomRoles, parts : 0..1]

Pages ==
  [api : {"error", "ok"}, nodes : SeqsUpTo(NodeKinds, MaxNodes),
   dom : SeqsUpTo(DomElements, MaxElements)]

RECURSIVE DomMessages(_, _)
DomMessages(els, msgs) ==
  IF els = <<>> THEN msgs
  ELSE DomMessages(Tail(els),
         IF Head(els).parts > 0
           THEN Append(msgs, [id |-> Len(msgs), role |-> Head(els).role,
                              parts |-> Head(els).parts])
           ELSE msgs)

ExtractConversationFromDom(els) == DomMessages(els, <<>>)

\* the try block: fetch, resp.json, normalizeConversation, validateConversation
FetchApi ==
  /\ fetched.status = "calling"
  /\ LET normalized == ValidateMessages(ExtractMessages(LinearMapping(page.nodes)))
     IN  fetched' = IF page.api = "ok" /\ Len(normalized) > 0
                      THEN [status |-> "returned", messages |-> normalized]
                      ELSE [status |-> "fallback", messages |-> <<>>]
  /\ UNCHANGED <<coordVars, call, mapping, walk, page, assets, rendered>>

\* after the try block: extractConversationFromDom, or the final throw
DomFallback ==
  /\ fetched.status = "fallback"
  /\ LET domFallback == ExtractConversationFromDom(page.dom)
     IN  fetched' = IF Len(domFallback) > 0
                      THEN [status |-> "returned", messages |-> ValidateMessages(domFallback)]
                      ELSE [status |-> "thrown", messages |-> <<>>]
  /\ UNCHANGED <<coordVars, call, mapping, walk, page, assets, rendered>>

\* executeExport's loop body around the call: the inner catch lists a throw as a failure
LoopBody ==
  /\ fetched.status \in {"returned", "thrown"}
  /\ fetched' = IF fetched.status = "thrown"
                  THEN [status |-> "failed", messages |-> <<>>,
                        failure |-> FailureRecord(1, FetchError)]
                  ELSE [fetched EXCEPT !.status = "loaded"]
  /\ UNCHANGED <<coordVars, call, mapping, walk, page, assets, rendered>>

InitFetch ==
  /\ CoordIdle
  /\ mapping = <<>>
  /\ walk = IdleWalk
  /\ page \in Pages
  /\ fetched = [status |-> "calling", messages |-> <<>>]
  /\ assets = NoAssets
  /\ rendered = NotRendered
  /\ call = NoCall

NextFetch == FetchApi \/ DomFallback \/ LoopBody

SpecFetch == InitFetch /\ [][NextFetch]_vars

\* ------------------------------------------- images and the HTML renderer
\* image assets a conversation can refer to
NumAssets == 2
\* content parts of the conversation
MaxParts == 3

AssetIds == 1..NumAssets

\* a content part: 0 is a text part, an asset id is an image part with that assetId
PartKinds == {0} \cup AssetIds

\* what fetchImageAsset does for an asset: resolve to a record with the bytes,
\* resolve to null (network or HTTP error, undecodable data URI, image not in
\* the DOM), or reject (for instance resp.arrayBuffer() fails)
AssetOutcomes == {"bytes", "null", "throw"}

Conversations == [parts : SeqsUpTo(PartKinds, MaxParts), outcome : [AssetIds -> AssetOutcomes]]

\* a fetchConversationImages without the try / catch around fetchImageAsset
OnAssetFetched_Uncaught(rd, assetId, outcome) ==
  IF outcome = "bytes" THEN [rd EXCEPT !.images = Append(@, assetId)]
  ELSE IF outcome = "throw" THEN [rd EXCEPT !.pc = "failed"]
  ELSE rd

\* the settling of `await fetchImageAsset(part.assetId, part.mimeType)`: a record
\* is pushed, null is dropped, a rejection is caught and logged
OnAssetFetched(rd, assetId, outcome) ==
  IF outcome = "bytes" THEN [rd EXCEPT !.images = Append(@, assetId)] ELSE rd

\* one iteration of the loop over the parts
ImagePart ==
  /\ rendered.pc = "fetching"
  /\ rendered.next <= Len(assets.parts)
  /\ LET part == assets.parts[rendered.next]
         on   == [rendered EXCEPT !.next = @ + 1]
     IN  rendered' =
           IF part = 0 \/ part \in rendered.seen THEN on
           ELSE OnAssetFetched([on EXCEPT !.seen = @ \cup {part}], part,
                               assets.outcome[part])
  /\ UNCHANGED <<coordVars, call, mapping, walk, page, fetched, assets>>

\* `return images`, and executeExport pushes {conversation, images} to records
ImagesReturn ==
  /\ rendered.pc = "fetching"
  /\ rendered.next > Len(assets.parts)
  /\ rendered' = [rendered EXCEPT !.pc = "recorded"]
  /\ UNCHANGED <<coordVars, call, mapping, walk, page, fetched, assets>>

\* packageZip: dataUrlMap has a data URL for every record.images entry
DataUrlMap(images) == Range(images)

\* a renderPart that embeds every image part
RenderPart_AlwaysImg(part, dataUrlMap) == IF part = 0 THEN "p" ELSE "img"

\* renderPart: <p> for text, <figure><img> when the map has the assetId,
\* <p class="image-placeholder"> otherwise
RenderPart(part, dataUrlMap) ==
  IF part = 0 THEN "p"
  ELSE IF part \in dataUrlMap THEN "img"
  ELSE "placeholder"

\* packageZip renders the record with renderHtmlConversation
RenderHtml ==
  /\ rendered.pc = "recorded"
  /\ rendered' = [rendered EXCEPT
                    !.pc = "rendered",
                    !.html = [k \in 1..Len(assets.parts) |->
                                RenderPart(assets.parts[k], DataUrlMap(rendered.images))]]
  /\ UNCHANGED <<coordVars, call, mapping, walk, page, fetched, assets>>

InitImages ==
  /\ CoordIdle
  /\ mapping = <<>>
  /\ walk = IdleWalk
  /\ page = NoPage
  /\ fetched = NotFetched
  /\ assets \in Conversations
  /\ rendered = [NotRendered EXCEPT !.pc = "fetching", !.next = 1]
  /\ call = NoCall

NextImages == ImagePart \/ ImagesReturn \/ RenderHtml

SpecImages == InitImages /\ [][NextImages]_vars

\* ------------------------------------------------ schema: extractContentParts
\* strings are sequences of characters; " " stands for any white space
MaxText == 2
\* entries of a raw parts array
MaxRawParts == 2

Blank == " "

RECURSIVE TrimStart(_)
TrimStart(s) == IF s # <<>> /\ Head(s) = Blank THEN TrimStart(Tail(s)) ELSE s

RECURSIVE TrimEnd(_)
TrimEnd(s) ==
  IF s # <<>> /\ s[Len(s)] = Blank THEN TrimEnd(SubSeq(s, 1, Len(s) - 1)) ELSE s

\* String.prototype.trim
Trim(s) == TrimEnd(TrimStart(s))

RECURSIVE Join(_)
\* array.join("")
Join(ss) == IF ss = <<>> THEN <<>> ELSE Head(ss) \o Join(Tail(ss))

RawStrings == SeqsUpTo({Blank, "a"}, MaxText)

\* an entry of content.parts: a string, an object with a text, null, an image pointer
RawParts ==
  {[t |-> "string", s |-> x, content_type |-> "", asset_pointer |-> <<>>] : x \in RawStrings}
    \cup {[t |-> "object", s |-> x, content_type |-> "", asset_pointer |-> <<>>] :
            x \in {<<>>, <<"a">>, <<Blank>>}}
    \cup {[t |-> "null", s |-> <<>>, content_type |-> "", asset_pointer |-> <<>>]}
    \cup {[t |-> "object", s |-> <<>>, content_type |-> "image_asset_pointer",
           asset_pointer |-> x] : x \in {<<>>, <<"a">>}}

\* content_type values; "other" stands for every value the function does not name
ContentTypes ==
  {"text", "code", "tether_browsing_display", "tether_quote", "multimodal_text", "other"}

RawObject(ct, ps, lang, txt) ==
  [t |-> "object", s |-> <<>>, content_type |-> ct, parts |-> ps, language |-> lang,
   text |-> txt]

\* raw content values: null, a number, a legacy string, or an object
RawContents ==
  {[t |-> k, s |-> <<>>, content_type |-> "", parts |-> <<>>, language |-> <<>>,
    text |-> <<>>] : k \in {"null", "number"}}
    \cup {[t |-> "string", s |-> x, content_type |-> "", parts |-> <<>>,
           language |-> <<>>, text |-> <<>>] : x \in RawStrings}
    \cup {RawObject(ct, ps, <<>>, <<>>) :
            ct \in {"text", "multimodal_text"}, ps \in SeqsUpTo(RawParts, MaxRawParts)}
    \cup {RawObject("code", <<>>, lang, txt) : lang \in RawStrings, txt \in RawStrings}
    \cup {RawObject(ct, ps, <<>>, txt) :
            ct \in {"tether_browsing_display", "tether_quote", "other"},
            ps \in SeqsUpTo({[t |-> "string", s |-> <<"a">>, content_type |-> "",
                              asset_pointer |-> <<>>]}, 1),
            txt \in {<<>>, <<"a">>}}

TextPart(txt) == [type |-> "text", text |-> txt, language |-> <<>>, assetId |-> <<>>]

CodePart(lang, txt) == [type |-> "code", text |-> txt, language |-> lang, assetId |-> <<>>]

ImagePartOf(assetId) == [type |-> "image", text |-> <<>>, language |-> <<>>, assetId |-> assetId]

\* (p) => typeof p === "string" ? p : p?.text || ""
PartText(p) == IF p.t = "null" THEN <<>> ELSE p.s

RECURSIVE MultimodalParts_NoTrim(_)
\* the multimodal_text loop without the test of part.trim()
MultimodalParts_NoTrim(ps) ==
  IF ps = <<>> THEN <<>>
  ELSE (IF Head(ps).t = "string" THEN <<TextPart(Head(ps).s)>> ELSE <<>>)
         \o MultimodalParts_NoTrim(Tail(ps))

RECURSIVE MultimodalParts(_)
\* the loop over the parts of a multimodal_text content
MultimodalParts(ps) ==
  IF ps = <<>> THEN <<>>
  ELSE (IF Head(ps).t = "string" /\ Trim(Head(ps).s) # <<>>
          THEN <<TextPart(Head(ps).s)>>
        ELSE IF Head(ps).t = "object" /\ Head(ps).content_type = "image_asset_pointer"
          THEN <<ImagePartOf(Head(ps).asset_pointer)>>
        ELSE <<>>)
       \o MultimodalParts(Tail(ps))

ExtractContentParts(content) ==
  IF content.t = "null" \/ (content.t = "string" /\ content.s = <<>>) THEN <<>>
  ELSE IF content.t = "string"
    THEN IF Trim(content.s) # <<>> THEN <<TextPart(content.s)>> ELSE <<>>
  ELSE IF content.t # "object" THEN <<>>
  ELSE IF content.content_type = "text"
    THEN LET text == Trim(Join([k \in 1..Len(content.parts) |-> PartText(content.parts[k])]))
         IN  IF text # <<>> THEN <<TextPart(text)>> ELSE <<>>
  ELSE IF content.content_type = "code"
    THEN LET language == Trim(content.language)
             text == Trim(content.text)
         IN  IF text # <<>> THEN <<CodePart(language, text)>> ELSE <<>>
  ELSE IF content.content_type \in {"tether_browsing_display", "tether_quote"} THEN <<>>
  ELSE IF content.content_type = "multimodal_text" THEN MultimodalParts(content.parts)
  ELSE <<>>

\* const parts = extractContentParts(msg.content)
CallExtractContentParts ==
  /\ call.pc = "called"
  /\ call' = [call EXCEPT !.pc = "returned", !.parts = ExtractContentParts(call.content)]
  /\ UNCHANGED <<coordVars, extractVars>>

InitParts ==
  /\ CoordIdle
  /\ ExtractIdle
  /\ call \in {[pc |-> "called", content |-> c, parts |-> <<>>] : c \in RawContents}

NextParts == CallExtractContentParts

SpecParts == InitParts /\ [][NextParts]_vars

\* ----------------------------------------------- schema: validateConversation
\* messages of a conversation value
MaxMessages == 2
\* values of Date.now()
MaxClock == 2

\* m.parts that is no array (or m itself null): isValidMessage is false
NotAnArray == -1

\* a string id, or `unknown_${Date.now()}`
IdOf(s) == [s |-> s, now |-> 0]

UnknownId(now) == [s |-> "unknown_", now |-> now]

\* a nullable field: missing, null, or a value
Nullable == {"undefined", "null", "value"}

\* conv.field ?? null
OrNull(v) == IF v = "undefined" THEN "null" ELSE v

ConvMessages == [id : {"m"}, role : {"user"}, parts : {NotAnArray} \cup 0..MaxParts]

\* conversation values, valid or not; messages "none" is a value that is no array
ConvValues ==
  [id : {IdOf(""), IdOf("conv_1")}, title : {"", "Chat"}, createTime : Nullable,
   updateTime : Nullable, model : Nullable, customGptName : Nullable,
   isArray : {TRUE}, messages : SeqsUpTo(ConvMessages, MaxMessages)]
    \cup [id : {IdOf(""), IdOf("conv_1")}, title : {"", "Chat"}, createTime : Nullable,
          updateTime : Nullable, model : Nullable, customGptName : Nullable,
          isArray : {FALSE}, messages : {<<>>}]

\* a validation that stamps a new id on every id it made up
ValidateConversation_Restamp(conv, now) ==
  [id            |-> IF conv.id.s \in {"", "unknown_"} THEN UnknownId(now) ELSE conv.id,
   title         |-> IF conv.title = "" THEN "Untitled Chat" ELSE conv.title,
   createTime    |-> OrNull(conv.createTime),
   updateTime    |-> OrNull(conv.updateTime),
   model         |-> OrNull(conv.model),
   customGptName |-> OrNull(conv.customGptName),
   isArray       |-> TRUE,
   messages      |-> IF conv.isArray THEN ValidateMessages(conv.messages) ELSE <<>>]

\* validateConversation(conv), called when Date.now() is now
ValidateConversation(conv, now) ==
  [id            |-> IF conv.id.s = "" THEN UnknownId(now) ELSE conv.id,
   title         |-> IF conv.title = "" THEN "Untitled Chat" ELSE conv.title,
   createTime    |-> OrNull(conv.createTime),
   updateTime    |-> OrNull(conv.updateTime),
   model         |-> OrNull(conv.model),
   customGptName |-> OrNull(conv.customGptName),
   isArray       |-> TRUE,
   messages      |-> IF conv.isArray THEN ValidateMessages(conv.messages) ELSE <<>>]

\* the first validation of a conversation
ValidateOnce ==
  /\ call.pc = "called"
  /\ \E now \in 1..MaxClock :
       call' = [call EXCEPT !.pc = "once", !.now = now,
                            !.once = ValidateConversation(call.conv, now)]
  /\ UNCHANGED <<coordVars, extractVars>>

\* the validation of the validated conversation, at the same time or later
ValidateTwice ==
  /\ call.pc = "once"
  /\ \E now \in call.now..MaxClock :
       call' = [call EXCEPT !.pc = "twice", !.now = now,
                            !.twice = ValidateConversation(call.once, now)]
  /\ UNCHANGED <<coordVars, extractVars>>

InitValidate ==
  /\ CoordIdle
  /\ ExtractIdle
  /\ call \in {[pc |-> "called", conv |-> c, now |-> 0, once |-> c, twice |-> c] :
                 c \in ConvValues}

NextValidate == ValidateOnce \/ ValidateTwice

SpecValidate == InitValidate /\ [][NextValidate]_vars

\* ------------------------------------------------------------ naming: slugify
\* .slice(0, 80)
SlugMax == 80
\* characters before and after the filling of a long text
MaxAffix == 2

\* an accented letter (e with acute), and the combining mark of its decomposition
Accented == "e'"

Acute == "U+0301"

\* characters of titles and names: a lower-case letter, an upper-case letter, an
\* accented letter, a hyphen, and white space for every other character
NameChars == {"a", "B", Accented, "-", Blank}

\* 0-9
Digits == <<"0", "1", "2", "3", "4", "5", "6", "7", "8", "9">>

\* a-z
LowerLetters ==
  {"a", "b", "c", "d", "e", "f", "g", "h", "i", "j", "k", "l", "m", "n", "o", "p", "q",
   "r", "s", "t", "u", "v", "w", "x", "y", "z"}

\* [a-z0-9]
IsLowerAlnum(c) == c \in LowerLetters \cup Range(Digits)

\* .toLowerCase()
ToLowerCase(s) == [k \in 1..Len(s) |-> IF s[k] = "B" THEN "b" ELSE s[k]]

\* .normalize("NFD"): an accented letter becomes the letter and its combining mark
NormalizeNFD(s) ==
  SelectSeq([n \in 1..(2 * Len(s)) |->
               LET c == s[((n - 1) \div 2) + 1]
               IN  IF c = Accented THEN (IF n % 2 = 1 THEN "e" ELSE Acute)
                   ELSE IF n % 2 = 1 THEN c ELSE ""],
            LAMBDA c : c # "")

\* .replace(/[\u0300-\u036f]/g, "")
StripMarks(s) == SelectSeq(s, LAMBDA c : c # Acute)

\* .replace(/[^a-z0-9]+/g, "-"): every run of other characters becomes one hyphen,
\* put where the run starts
ReplaceNonAlnum(s) ==
  SelectSeq([k \in 1..Len(s) |->
               IF IsLowerAlnum(s[k]) THEN s[k]
               ELSE IF k > 1 /\ ~IsLowerAlnum(s[k - 1]) THEN "" ELSE "-"],
            LAMBDA c : c # "")

\* .replace(/^-+/g, "")
TrimHyphensStart(s) ==
  IF \A k \in 1..Len(s) : s[k] = "-" THEN <<>>
  ELSE SubSeq(s, CHOOSE k \in 1..Len(s) : s[k] # "-" /\ \A j \in 1..(k - 1) : s[j] = "-", Len(s))

\* .replace(/-+$/g, "")
TrimHyphensEnd(s) ==
  IF \A k \in 1..Len(s) : s[k] = "-" THEN <<>>
  ELSE SubSeq(s, 1, CHOOSE k \in 1..Len(s) : s[k] # "-" /\ \A j \in (k + 1)..Len(s) : s[j] = "-")

\* .replace(/^-+|-+$/g, "")
TrimHyphens(s) == TrimHyphensEnd(TrimHyphensStart(s))

\* .slice(0, n)
Slice(s, n) == SubSeq(s, 1, IF Len(s) < n THEN Len(s) ELSE n)

\* slugify up to the cut
Unsliced(text) == TrimHyphens(ReplaceNonAlnum(StripMarks(NormalizeNFD(ToLowerCase(text)))))

\* slugify without the second trim
Slugify_NoRetrim(text) == Slice(Unsliced(text), SlugMax)

Slugify(text) == TrimHyphensEnd(Slice(Unsliced(text), SlugMax))

\* n letters
Fill(n) == [k \in 1..n |-> "a"]

\* short texts, and texts that reach the cut with any characters around it
SlugTexts ==
  {p \o Fill(n) \o q : p \in SeqsUpTo(NameChars, MaxAffix), q \in SeqsUpTo(NameChars, MaxAffix),
                       n \in {0} \cup (SlugMax - MaxAffix - 1)..(SlugMax + 1)}

\* slugify(text)
CallSlugify ==
  /\ call.pc = "called"
  /\ call' = [call EXCEPT !.pc = "slugged", !.slug = Slugify(call.text)]
  /\ UNCHANGED <<coordVars, extractVars>>

\* slugify(slugify(text))
CallSlugifyAgain ==
  /\ call.pc = "slugged"
  /\ call' = [call EXCEPT !.pc = "twice", !.again = Slugify(call.slug)]
  /\ UNCHANGED <<coordVars, extractVars>>

InitSlug ==
  /\ CoordIdle
  /\ ExtractIdle
  /\ call \in {[pc |-> "called", text |-> x, slug |-> <<>>, again |-> <<>>] : x \in SlugTexts}

NextSlug == CallSlugify \/ CallSlugifyAgain

SpecSlug == InitSlug /\ [][NextSlug]_vars

\* ------------------------------------------------------ naming: buildFileName
\* base.slice(0, 100)
BaseMax == 100
\* buildFileName calls that share one set
MaxCalls == 3

\* String(n) for a number
RECURSIVE Decimal(_)
Decimal(n) ==
  IF n < 10 THEN <<Digits[n + 1]>> ELSE Decimal(n \div 10) \o <<Digits[(n % 10) + 1]>>

\* timestamps are days of February 2024, the 10th to the 19th; 0 stands for null
NoTime == 0

\* formatDate(unixSeconds): "YYYY-MM-DD", today's date for null
FormatDate(unixSeconds, today) ==
  <<"2", "0", "2", "4", "-", "0", "2", "-", "1">>
    \o <<Digits[(IF unixSeconds = NoTime THEN today ELSE unixSeconds) + 1]>>

\* a ?? b
Coalesce(a, b) == IF a = NoTime THEN b ELSE a

UntitledChat == <<"u", "n", "t", "i", "t", "l", "e", "d", "-", "c", "h", "a", "t">>

NoId == <<"n", "o", "-", "i", "d">>

\* naming templates; the tokens {date}, {title}, {id} are single elements
Templates == {<<"{date}", "_", "{title}">>, <<"{title}">>, <<"{id}">>}

\* the first k with s[k] = token, 0 if there is none
IndexOf(s, token) ==
  IF token \in Range(s) THEN CHOOSE k \in 1..Len(s) : s[k] = token /\ \A j \in 1..(k - 1) : s[j] # token
  ELSE 0

\* s.replace(token, text): the first occurrence only
ReplaceFirst(s, token, text) ==
  IF IndexOf(s, token) = 0 THEN s
  ELSE SubSeq(s, 1, IndexOf(s, token) - 1) \o text \o SubSeq(s, IndexOf(s, token) + 1, Len(s))

\* the base name of buildFileName, before collision resolution
BaseName(conversation, template, today) ==
  LET dateStr   == FormatDate(Coalesce(conversation.updateTime, conversation.createTime), today)
      titleSlug == Slugify(IF conversation.title = <<>> THEN UntitledChat ELSE conversation.title)
      idSlug    == Slugify(IF conversation.id = <<>> THEN NoId ELSE conversation.id)
  IN  Slice(ReplaceFirst(ReplaceFirst(ReplaceFirst(template, "{date}", dateStr),
                                      "{title}", titleSlug), "{id}", idSlug), BaseMax)

\* a resolution that tries one suffix only
Candidate_Once(base, suffix, used) ==
  IF base \in used THEN base \o <<"-">> \o Decimal(suffix) ELSE base

RECURSIVE Candidate(_, _, _)
\* while (used.has(candidate)) { candidate = `${base}-${suffix}`; suffix++; }
\* suffix is the next suffix to try; the candidate tried before it is base-(suffix-1)
Candidate(base, suffix, used) ==
  LET candidate == IF suffix = 2 THEN base ELSE base \o <<"-">> \o Decimal(suffix - 1)
  IN  IF candidate \in used THEN Candidate(base, suffix + 1, used) ELSE candidate

BuildFileName(conversation, template, today, used) ==
  Candidate(BaseName(conversation, template, today), 2, used)

\* conversations to name: the titles "a", "B" and "a 2" and no title, with or
\* without id and time stamps
NamedConversations ==
  [title : {<<>>, <<"a">>, <<"B">>, <<"a", Blank, "2">>},
   id : {<<>>, <<"c", "1">>},
   updateTime : {NoTime, 5},
   createTime : {NoTime, 6}]

\* buildFileName(conv, template, usedNames) on a day `today`
CallBuildFileName ==
  /\ call.pc = "naming"
  /\ Len(call.names) < MaxCalls
  /\ \E conversation \in NamedConversations, template \in Templates, today \in {5, 7} :
       LET name == BuildFileName(conversation, template, today, call.used)
       IN  call' = [call EXCEPT
                      !.used = @ \cup {name},
                      !.names = Append(@, name),
                      !.args = Append(@, [title |-> conversation.title,
                                           template |-> template,
                                           base |-> BaseName(conversation, template, today)])]
  /\ UNCHANGED <<coordVars, extractVars>>

InitNames ==
  /\ CoordIdle
  /\ ExtractIdle
  /\ call = [pc |-> "naming", used |-> {}, names |-> <<>>, args |-> <<>>]

NextNames == CallBuildFileName

SpecNames == InitNames /\ [][NextNames]_vars

\* ------------------------------------------- exporter: renderHtmlConversation
\* a rendered document is a sequence of the renderer's own pieces of markup, each
\* one element, and of the characters that come from the conversation

\* characters of user-controlled strings
HtmlChars == {"a", "&", "<", ">"}

HtmlStrings == SeqsUpTo(HtmlChars, MaxText)

\* s.replaceAll(c, text)
ReplaceAll(s, c, text) == Join([k \in 1..Len(s) |-> IF s[k] = c THEN text ELSE <<s[k]>>])

EscapeHtml(input) ==
  ReplaceAll(ReplaceAll(ReplaceAll(ReplaceAll(ReplaceAll(input,
    "&", <<"&", "a", "m", "p", ";">>),
    "<", <<"&", "l", "t", ";">>),
    ">", <<"&", "g", "t", ";">>),
    "\"", <<"&", "q", "u", "o", "t", ";">>),
    "'", <<"&", "#", "3", "9", ";">>)

\* asset ids: file-service pointers, and data URIs with any characters as mime type
HtmlAssetIds ==
  {<<"file-service://">> \o x : x \in {<<"a">>, <<"<">>}}
    \cup {<<"data:">> \o mime \o <<";base64,", "AAAA">> :
            mime \in {<<>>, <<"a">>, <<"<">>, <<"a", ">">>}}

\* roles: two of ROLE_LABELS, a role of any characters, and none
HtmlRoles == {<<"user">>, <<"assistant">>, <<"a", "<">>, <<>>}

HtmlParts ==
  {TextPart(x) : x \in HtmlStrings}
    \cup {CodePart(lang, x) : lang \in {<<>>, <<"a">>, <<"<">>}, x \in HtmlStrings}
    \cup {ImagePartOf(a) : a \in HtmlAssetIds}

\* conversations of one message with one part
HtmlConversations ==
  {[title |-> t, messages |-> <<[role |-> r, parts |-> <<p>>]>>] :
     t \in HtmlStrings, r \in HtmlRoles, p \in HtmlParts}

\* decodeDataUriAsset: the mime type is what stands between "data:" and the first
\* ";" or ",", image/png if nothing does
DecodeDataUriAsset(dataUri) ==
  LET stop == IndexOf(dataUri, ";base64,")
      mime == SubSeq(dataUri, 2, stop - 1)
  IN  [assetId |-> dataUri, bytes |-> <<"AAAA">>,
       mimeType |-> IF mime = <<>> THEN <<"image/png">> ELSE mime]

\* fetchImageAsset: the record of a data URI, and for a file-service pointer the
\* fetched bytes with the response's content type, or null (<<>>) when the fetch fails
FetchImageAsset(assetId, ok) ==
  IF Head(assetId) = "data:" THEN <<DecodeDataUriAsset(assetId)>>
  ELSE IF ok THEN <<[assetId |-> assetId, bytes |-> <<"AAAA">>, mimeType |-> <<"image/png">>]>>
  ELSE <<>>

\* fetchConversationImages for the parts of a message, each asset once
RECURSIVE FetchPartImages(_, _, _)
FetchPartImages(parts, seen, ok) ==
  IF parts = <<>> THEN <<>>
  ELSE IF Head(parts).type # "image" \/ Head(parts).assetId \in seen
    THEN FetchPartImages(Tail(parts), seen, ok)
  ELSE FetchImageAsset(Head(parts).assetId, ok)
         \o FetchPartImages(Tail(parts), seen \cup {Head(parts).assetId}, ok)

\* packageZip: `data:${img.mimeType || "image/png"};base64,${b64}`
DataUrl(img) ==
  <<"data:">> \o (IF img.mimeType = <<>> THEN <<"image/png">> ELSE img.mimeType)
    \o <<";base64,">> \o img.bytes

\* packageZip: dataUrlMap, assetId -> data URL
HtmlDataUrlMap(images) ==
  [a \in {images[k].assetId : k \in 1..Len(images)} |->
     DataUrl(images[CHOOSE k \in 1..Len(images) :
                      /\ images[k].assetId = a
                      /\ \A j \in (k + 1)..Len(images) : images[j].assetId # a])]

\* ROLE_LABELS[role] || escapeHtml(role)
RoleLabel(role) ==
  IF role = <<"user">> THEN <<"User">>
  ELSE IF role = <<"assistant">> THEN <<"Assistant">>
  ELSE IF role = <<"system">> THEN <<"System">>
  ELSE IF role = <<"tool">> THEN <<"Tool">>
  ELSE EscapeHtml(role)

\* role.replace(/[^a-z]/g, "")
RoleClass(role) ==
  SelectSeq(role, LAMBDA c : c \in LowerLetters \cup {"user", "assistant", "system", "tool", "unknown"})

RenderHtmlPart(part, imageDataUrls) ==
  IF part.type = "text"
    THEN <<"<p class=\"text-part\">">>
           \o ReplaceAll(EscapeHtml(part.text), "\n", <<"<br>">>) \o <<"</p>">>
  ELSE IF part.type = "code"
    THEN <<"<pre><code class=\"language-">> \o EscapeHtml(part.language) \o <<"\">">>
           \o EscapeHtml(part.text) \o <<"</code></pre>">>
  ELSE IF part.type = "image"
    THEN LET src == IF part.assetId \in DOMAIN imageDataUrls
                      THEN imageDataUrls[part.assetId] ELSE <<>>
             alt == <<"Uploaded image (">> \o part.assetId \o <<")">>
         IN  IF src # <<>>
               THEN <<"<figure class=\"image-part\"><img src=\"">> \o src \o <<"\" alt=\"">>
                      \o EscapeHtml(alt) \o <<"\" style=\"max-width:100%\"></figure>">>
               ELSE <<"<p class=\"image-placeholder\">[Image: ">>
                      \o EscapeHtml(part.assetId) \o <<"]</p>">>
  ELSE <<>>

\* array.join(sep) of texts
RECURSIVE JoinWith(_, _)
JoinWith(texts, sep) ==
  IF texts = <<>> THEN <<>>
  ELSE IF Len(texts) = 1 THEN Head(texts)
  ELSE Head(texts) \o sep \o JoinWith(Tail(texts), sep)

RenderHtmlMessage(message, imageDataUrls) ==
  LET role  == IF message.role = <<>> THEN <<"unknown">> ELSE message.role
      parts == [k \in 1..Len(message.parts) |-> RenderHtmlPart(message.parts[k], imageDataUrls)]
  IN  <<"<article class=\"message role-">> \o RoleClass(role)
        \o <<"\"><h2 class=\"role-label\">">> \o RoleLabel(role)
        \o <<"</h2><div class=\"content\">">> \o JoinWith(parts, <<"\n">>)
        \o <<"</div></article>">>

RenderHtmlConversation(conversation, imageDataUrls) ==
  LET title == EscapeHtml(IF conversation.title = <<>> THEN <<"Untitled Chat">>
                          ELSE conversation.title)
      body  == [k \in 1..Len(conversation.messages) |->
                  RenderHtmlMessage(conversation.messages[k], imageDataUrls)]
  IN  <<"<!doctype html><html lang=\"en\"><head>", "<title>">> \o title
        \o <<"</title>", "<style>INLINE_CSS</style>", "<script>HIGHLIGHT_INIT</script>",
             "</head><body><main class=\"conversation\">", "<h1 class=\"conv-title\">">>
        \o title \o <<"</h1>">> \o JoinWith(body, <<"\n">>)
        \o <<"</main></body></html>">>

\* executeExport: images = await fetchConversationImages(conversation)
CallFetchConversationImages ==
  /\ call.pc = "fetching"
  /\ \E ok \in BOOLEAN :
       call' = [call EXCEPT
                  !.pc = "recorded",
                  !.images = FetchPartImages(
                               Join([k \in 1..Len(call.conversation.messages) |->
                                       call.conversation.messages[k].parts]), {}, ok)]
  /\ UNCHANGED <<coordVars, extractVars>>

\* packageZip: renderHtmlConversation(conv, dataUrlMap, highlightSource)
CallRenderHtmlConversation ==
  /\ call.pc = "recorded"
  /\ call' = [call EXCEPT
                !.pc = "rendered",
                !.html = RenderHtmlConversation(call.conversation, HtmlDataUrlMap(call.images))]
  /\ UNCHANGED <<coordVars, extractVars>>

InitHtml ==
  /\ CoordIdle
  /\ ExtractIdle
  /\ call \in {[pc |-> "fetching", conversation |-> c, images |-> <<>>, html |-> <<>>] :
                 c \in HtmlConversations}

NextHtml == CallFetchConversationImages \/ CallRenderHtmlConversation

SpecHtml == InitHtml /\ [][NextHtml]_vars

\* ------------------------------------- exporter: the JSON and Markdown renderers
\* characters of the texts to render
TextChars == {"a", "\"", Blank}

TextStrings == SeqsUpTo(TextChars, MaxText)

\* the three backticks that open and close a code block
Fence == "[fence]"

\* the value null of a nullable string field
NullString == <<"null">>

\* the asset ids of the conversations to render
RenderAssetIds == {<<"file-service://", "a">>}

RenderParts ==
  {TextPart(x) : x \in TextStrings}
    \cup {CodePart(lang, x) : lang \in {<<>>, <<"p", "y">>}, x \in TextStrings}
    \cup {ImagePartOf(a) : a \in RenderAssetIds}

\* messages m1, m2, ... of one part each
RenderMessages(parts) ==
  [k \in 1..Len(parts) |->
     [id |-> <<"m">> \o Decimal(k), role |-> IF k = 1 THEN <<"user">> ELSE <<>>,
      createTime |-> NoTime, parts |-> <<parts[k]>>]]

RenderConversations ==
  {[id |-> <<"c", "1">>, title |-> t, createTime |-> 5, updateTime |-> NoTime,
    model |-> NullString, customGptName |-> NullString, messages |-> RenderMessages(parts)] :
     t \in {<<>>, <<"a">>}, parts \in SeqsUpTo(RenderParts, MaxMessages)}

\* JSON.stringify of a string: quotes around it, and " \ and line feed escaped
JsonString(s) ==
  <<"\"">>
    \o ReplaceAll(ReplaceAll(ReplaceAll(s, "\\", <<"\\", "\\">>), "\"", <<"\\", "\"">>),
                  "\n", <<"\\", "n">>)
    \o <<"\"">>

\* JSON.stringify of a nullable string
JsonNullable(s) == IF s = NullString THEN <<"null">> ELSE JsonString(s)

\* JSON.stringify of a nullable number
JsonNumber(n) == IF n = NoTime THEN <<"null">> ELSE Decimal(n)

\* a flattening that leaves the fence out
FlattenPart_Plain(part) ==
  IF part.type = "text" THEN part.text
  ELSE IF part.type = "code" THEN part.text
  ELSE IF part.type = "image" THEN <<"[image: ">> \o part.assetId \o <<"]">>
  ELSE <<>>

\* flattenPartsToText, for one part
FlattenPart(part) ==
  IF part.type = "text" THEN part.text
  ELSE IF part.type = "code"
    THEN <<Fence>> \o part.language \o <<"\n">> \o part.text \o <<"\n", Fence>>
  ELSE IF part.type = "image" THEN <<"[image: ">> \o part.assetId \o <<"]">>
  ELSE <<>>

FlattenPartsToText(parts) ==
  JoinWith([k \in 1..Len(parts) |-> FlattenPart(parts[k])], <<"\n", "\n">>)

JsonMessage(m) ==
  <<"{", "\"id\": ">> \o JsonString(m.id)
    \o <<",", "\"role\": ">> \o JsonString(IF m.role = <<>> THEN <<"unknown">> ELSE m.role)
    \o <<",", "\"content\": ">> \o JsonString(FlattenPartsToText(m.parts))
    \o <<",", "\"create_time\": ">> \o JsonNumber(m.createTime) \o <<"}">>

\* a renderer that stamps the time of the export
RenderJsonConversation_Stamped(conversation) ==
  <<"{", "\"exported_at\": ">> \o Decimal(call.clock) \o <<",", "\"messages\": [">>
    \o JoinWith([k \in 1..Len(conversation.messages) |-> JsonMessage(conversation.messages[k])],
                <<",">>)
    \o <<"]", "}">>

RenderJsonConversation(conversation) ==
  <<"{", "\"id\": ">> \o JsonString(conversation.id)
    \o <<",", "\"title\": ">> \o JsonString(conversation.title)
    \o <<",", "\"create_time\": ">> \o JsonNumber(conversation.createTime)
    \o <<",", "\"update_time\": ">> \o JsonNumber(conversation.updateTime)
    \o <<",", "\"model\": ">> \o JsonNullable(conversation.model)
    \o <<",", "\"custom_gpt\": ">> \o JsonNullable(conversation.customGptName)
    \o <<",", "\"messages\": [">>
    \o JoinWith([k \in 1..Len(conversation.messages) |-> JsonMessage(conversation.messages[k])],
                <<",">>)
    \o <<"]", "}">>

\* formatRole: the label of a known role, else the role with a capital
FormatRole(role) ==
  IF role = <<"user">> THEN <<"User">>
  ELSE IF role = <<"assistant">> THEN <<"Assistant">>
  ELSE IF role = <<"system">> THEN <<"System">>
  ELSE IF role = <<"tool">> THEN <<"Tool">>
  ELSE IF role = <<"unknown">> THEN <<"Unknown">>
  ELSE <<IF Head(role) = "a" THEN "A" ELSE Head(role)>> \o Tail(role)

\* the lines of a part in the Markdown document
MarkdownPart(part, imageFileNames) ==
  IF part.type = "text"
    THEN <<IF Trim(part.text) = <<>> THEN <<"_(empty)_">> ELSE Trim(part.text), <<>>>>
  ELSE IF part.type = "code"
    THEN <<<<Fence>> \o part.language, part.text, <<Fence>>, <<>>>>
  ELSE IF part.type = "image"
    THEN LET fileName == IF part.assetId \in DOMAIN imageFileNames
                           THEN imageFileNames[part.assetId]
                           ELSE part.assetId \o <<".png">>
         IN  <<<<"![image](./images/">> \o fileName \o <<")">>, <<>>>>
  ELSE <<>>

MarkdownMessage(message, imageFileNames) ==
  <<<<"## ">> \o FormatRole(IF message.role = <<>> THEN <<"unknown">> ELSE message.role), <<>>>>
    \o (IF message.parts = <<>> THEN <<<<"_(empty)_">>, <<>>>>
        ELSE Join([k \in 1..Len(message.parts) |->
                     MarkdownPart(message.parts[k], imageFileNames)]))

RenderMarkdownConversation(conversation, imageFileNames) ==
  JoinWith(
    <<<<"# ">> \o (IF conversation.title = <<>> THEN <<"Untitled Chat">> ELSE conversation.title),
      <<>>>>
      \o Join([k \in 1..Len(conversation.messages) |->
                 MarkdownMessage(conversation.messages[k], imageFileNames)]),
    <<"\n">>)

\* the maps packageZip makes when the images in `resolved` were fetched
ImageFileNames(resolved) == [a \in resolved |-> <<"c", "1", "_", "0", ".png">>]

ImageDataUrls(resolved) ==
  [a \in resolved |-> DataUrl([assetId |-> a, bytes |-> <<"AAAA">>, mimeType |-> <<"image/png">>])]

Renderers == {"json", "markdown", "html"}

\* what a renderer returns for the conversation and the maps of the call
Render(renderer) ==
  IF renderer = "json" THEN RenderJsonConversation(call.conversation)
  ELSE IF renderer = "markdown"
    THEN RenderMarkdownConversation(call.conversation, call.imageFileNames)
  ELSE RenderHtmlConversation(call.conversation, call.imageDataUrls)

\* one more call of a renderer with the same arguments
CallRenderer ==
  /\ call.pc = "rendering"
  /\ \E renderer \in Renderers :
       /\ Len(call.out[renderer]) < 2
       /\ call' = [call EXCEPT !.out[renderer] = Append(@, Render(renderer))]
  /\ UNCHANGED <<coordVars, extractVars>>

\* time passes between the calls
Tick ==
  /\ call.pc = "rendering"
  /\ call.clock < MaxClock
  /\ call' = [call EXCEPT !.clock = @ + 1]
  /\ UNCHANGED <<coordVars, extractVars>>

InitRender ==
  /\ CoordIdle
  /\ ExtractIdle
  /\ call \in {[pc |-> "rendering", conversation |-> c, clock |-> 0,
                imageFileNames |-> ImageFileNames(resolved),
                imageDataUrls |-> ImageDataUrls(resolved),
                out |-> [r \in Renderers |-> <<>>]] :
                 c \in RenderConversations, resolved \in SUBSET RenderAssetIds}

NextRender == CallRenderer \/ Tick

SpecRender == InitRender /\ [][NextRender]_vars

\* ------------------------------------------------------- packager: packageZip
\* records of a batch
MaxRecords == 2

\* conversations of a batch: plain ones (customGptName null or ""), and members of
\* a custom GPT whose name has a slug or has none; a short title, or a long one with
\* which the default name (date, underscore, title) is as long as a slug can be; no
\* message or one message with an image
ZipConversations ==
  [id : {<<"c", "1">>}, title : {<<"a">>, Fill(SlugMax - 11)}, updateTime : {5}, createTime : {NoTime},
   customGptName : {NullString, <<>>, <<"B", Blank, "a">>, <<Blank>>},
   messages : {RenderMessages(parts) : parts \in SeqsUpTo({ImagePartOf(a) : a \in RenderAssetIds}, 1)}]

\* the assets the image parts of a conversation refer to
ImageAssetIds(conversation) ==
  {conversation.messages[m].parts[p].assetId :
     <<m, p>> \in {mp \in (1..Len(conversation.messages)) \X (1..MaxMessages) :
                     /\ mp[2] <= Len(conversation.messages[mp[1]].parts)
                     /\ conversation.messages[mp[1]].parts[mp[2]].type = "image"}}

\* records: a conversation and the images fetched for it, which are images of its
\* image parts
ZipRecords ==
  {r \in [conversation : ZipConversations, images : SeqsUpTo(RenderAssetIds, 1)] :
     Range(r.images) \subseteq ImageAssetIds(r.conversation)}

\* the formats chosen in the popup: at least one
FormatChoices == (SUBSET {"html", "markdown", "json"}) \ {{}}

\* a folder prefix that ignores the custom GPT
GetFolderPrefix_AlwaysChats(conversation) == <<"chats/">>

GetFolderPrefix(conversation) ==
  IF conversation.customGptName \notin {NullString, <<>>}
    THEN <<"custom-gpts/">> \o Slugify(conversation.customGptName) \o <<"/">>
  ELSE <<"chats/">>

\* `chatgpt-export_${formatDate(Date.now() / 1000)}`
RootFolder(today) == <<"chatgpt-export_">> \o FormatDate(today, today)

Ext(format) == IF format = "markdown" THEN <<".md">> ELSE IF format = "html" THEN <<".html">> ELSE <<".json">>

\* zip.file(path, content): the write, with the record and the kind of file it is
\* for, the index entries it is built from, and its text as far as it is modelled
ZipFile(path, kind, record, entries, text) ==
  [path |-> path, kind |-> kind, record |-> record, entries |-> entries, text |-> text]

\* imgName of image j of a record
ImageName(baseName, j) == Slugify(baseName) \o <<"_">> \o Decimal(j - 1) \o <<".png">>

\* imageMap: assetId -> imgName, a later image of the same asset replacing an earlier one
ImageMap(baseName, images) ==
  [a \in Range(images) |->
     ImageName(baseName, CHOOSE j \in 1..Len(images) :
                           images[j] = a /\ \A k \in (j + 1)..Len(images) : images[k] # a)]

\* buildIndexHtml: per entry, the href of the link of every chosen format
BuildIndexHtml(entries, formats) ==
  [e \in 1..Len(entries) |->
     [links |-> {<<"./">> \o entries[e].folder \o entries[e].baseName \o Ext(f) : f \in formats}]]

\* the image files of a record
ImageFiles(root, baseName, images, i) ==
  [j \in 1..Len(images) |->
     ZipFile(root \o <<"/images/">> \o ImageName(baseName, j), "image", i, <<>>, <<>>)]

\* the artifacts of a record, in the order html, markdown, json
ArtifactFiles(root, folderPfx, baseName, formats, i, md) ==
  LET file(format) == IF format \in formats
                        THEN <<ZipFile(root \o <<"/">> \o folderPfx \o baseName \o Ext(format),
                                       format, i, <<>>,
                                       IF format = "markdown" THEN md ELSE <<>>)>>
                        ELSE <<>>
  IN  file("html") \o file("markdown") \o file("json")

\* one iteration of the loop over the records
PackageRecord ==
  /\ call.pc = "packaging"
  /\ call.i < Len(call.records)
  /\ LET i         == call.i + 1
         conv      == call.records[i].conversation
         baseName  == BuildFileName(conv, call.template, call.today, call.usedNames)
         folderPfx == GetFolderPrefix(conv)
         root      == RootFolder(call.today)
     IN  call' = [call EXCEPT
                    !.i = i,
                    !.usedNames = @ \cup {baseName},
                    !.zip = @ \o ImageFiles(root, baseName, call.records[i].images, i)
                              \o ArtifactFiles(root, folderPfx, baseName, call.formats, i,
                                               RenderMarkdownConversation(
                                                 conv, ImageMap(baseName, call.records[i].images))),
                    !.indexEntries = Append(@, [title |-> conv.title, folder |-> folderPfx,
                                                 baseName |-> baseName, record |-> i])]
  /\ UNCHANGED <<coordVars, extractVars>>

\* after the loop: index.html if html is among the formats, then export-summary.txt
PackageIndexAndSummary ==
  /\ call.pc = "packaging"
  /\ call.i = Len(call.records)
  /\ LET root == RootFolder(call.today)
     IN  call' = [call EXCEPT
                    !.pc = "packaged",
                    !.zip = @ \o (IF "html" \in call.formats
                                    THEN <<ZipFile(root \o <<"/index.html">>, "index", 0,
                                                   call.indexEntries,
                                                   BuildIndexHtml(call.indexEntries, call.formats))>>
                                    ELSE <<>>)
                              \o <<ZipFile(root \o <<"/export-summary.txt">>, "summary", 0,
                                           <<>>, <<>>)>>]
  /\ UNCHANGED <<coordVars, extractVars>>

InitZip ==
  /\ CoordIdle
  /\ ExtractIdle
  /\ call \in {[pc |-> "packaging", records |-> rs, formats |-> fs, template |-> t,
                today |-> 7, i |-> 0, usedNames |-> {}, indexEntries |-> <<>>, zip |-> <<>>] :
                 rs \in SeqsUpTo(ZipRecords, MaxRecords), fs \in FormatChoices, t \in Templates}

NextZip == PackageRecord \/ PackageIndexAndSummary

SpecZip == InitZip /\ [][NextZip]_vars

\* ---------------------------------------- service worker: START_EXPORT, end to end
\* what chrome.storage.local can hold under resumeState when START_EXPORT arrives
StoredStates ==
  {NoState, FreshState}
    \cup {[status |-> "in_progress", allIds |-> AllIdsList,
           completedIds |-> SubSeq(AllIdsList, 1, n)] : n \in 0..NumIds}
    \cup {[status |-> "done", allIds |-> AllIdsList, completedIds |-> AllIdsList]}

\* the executeExport of an earlier START_EXPORT, fetching the last conversation
RunningRun(cancelled) ==
  [IdleRun EXCEPT !.pc = "fetching", !.metas = AllIdsList, !.i = NumIds,
                  !.records = SubSeq(AllIdsList, 1, NumIds - 1), !.cancelled = cancelled]

\* the page when START_EXPORT arrives: no export yet, one running, one running
\* and cancelled, one that has returned
EarlierRuns == {"none", "running", "cancelled", "returned"}

EarlierRun(earlier) ==
  IF earlier = "running" THEN RunningRun(FALSE)
  ELSE IF earlier = "cancelled" THEN RunningRun(TRUE)
  ELSE IF earlier = "returned" THEN Finished
  ELSE IdleRun

\* the popup's START_EXPORT reaches the service worker
StartExportArrives ==
  /\ call.pc \in {"idle", "answered"}
  /\ nStarts < MaxStarts
  /\ nStarts' = nStarts + 1
  /\ call' = [pc |-> "set", before |-> resumeState, started |-> FALSE, answer |-> "none"]
  /\ UNCHANGED <<resumeState, pendingGet, pendingSet, pendingRemove, start, cancel,
                 nCancels, activeRun, runs, reported, extractVars>>

\* handleStartExport: await chrome.storage.local.set({resumeState})
HandleStartExportPersist ==
  /\ call.pc = "set"
  /\ resumeState' = FreshState
  /\ call' = [call EXCEPT !.pc = "tab"]
  /\ UNCHANGED <<pendingGet, pendingSet, pendingRemove, start, cancel, nStarts,
                 nCancels, activeRun, runs, reported, extractVars>>

\* onMessage START_EXPORT: sendResponse from .then (ok) or from .catch (not ok)
RespondStartExport(ok, started) ==
  [call EXCEPT !.pc = "answered", !.started = started,
               !.answer = IF ok THEN "ok" ELSE "not ok"]

\* handleStartExport: the sender's tab or chrome.tabs.query, and the throw without a tab
HandleStartExportTab ==
  /\ call.pc = "tab"
  /\ \E found \in BOOLEAN :
       call' = IF found THEN [call EXCEPT !.pc = "send"] ELSE RespondStartExport(FALSE, FALSE)
  /\ UNCHANGED <<resumeState, pendingGet, pendingSet, pendingRemove, start, cancel,
                 nStarts, nCancels, activeRun, runs, reported, extractVars>>

\* RUN_EXPORT is delivered: the content script refuses it or starts the run; either
\* way chrome.tabs.sendMessage resolves and handleStartExport returns
OnRunExport ==
  IF activeRun # 0 /\ ~runs[activeRun].cancelled
    THEN /\ call' = RespondStartExport(TRUE, FALSE)
         /\ UNCHANGED <<runs, pendingGet, activeRun>>
    ELSE LET step == StartRun(FALSE, NoState)
         IN  /\ call' = RespondStartExport(TRUE, TRUE)
             /\ runs' = [runs EXCEPT ![nStarts] = step.run]
             /\ pendingGet' = SendAll(pendingGet, step.msgs)
             /\ activeRun' = nStarts

\* sendRunExportMessage: the first chrome.tabs.sendMessage; it is delivered, or it
\* fails with "Receiving end does not exist" (no content script in the tab, so no
\* run either), or it fails with another error, which is thrown on
SendRunExportMessage ==
  /\ call.pc = "send"
  /\ \/ OnRunExport
     \/ /\ activeRun = 0
        /\ call' = [call EXCEPT !.pc = "inject"]
        /\ UNCHANGED <<runs, pendingGet, activeRun>>
     \/ /\ call' = RespondStartExport(FALSE, FALSE)
        /\ UNCHANGED <<runs, pendingGet, activeRun>>
  /\ UNCHANGED <<resumeState, pendingSet, pendingRemove, start, cancel, nStarts,
                 nCancels, reported, extractVars>>

\* sendRunExportMessage: executeScript, then waitForContentScriptReady
InjectContentScript ==
  /\ call.pc = "inject"
  /\ \E isReady \in BOOLEAN :
       call' = IF isReady THEN [call EXCEPT !.pc = "resend"]
               ELSE RespondStartExport(FALSE, FALSE)
  /\ UNCHANGED <<resumeState, pendingGet, pendingSet, pendingRemove, start, cancel,
                 nStarts, nCancels, activeRun, runs, reported, extractVars>>

\* sendRunExportMessage: the second chrome.tabs.sendMessage, whose error is thrown on
ResendRunExportMessage ==
  /\ call.pc = "resend"
  /\ \/ OnRunExport
     \/ /\ call' = RespondStartExport(FALSE, FALSE)
        /\ UNCHANGED <<runs, pendingGet, activeRun>>
  /\ UNCHANGED <<resumeState, pendingSet, pendingRemove, start, cancel, nStarts,
                 nCancels, reported, extractVars>>

InitStart ==
  /\ ExtractIdle
  /\ call = NoCall
  /\ resumeState \in StoredStates
  /\ pendingGet = EmptyBag
  /\ pendingSet = EmptyBag
  /\ pendingRemove = 0
  /\ start = IdleStart
  /\ cancel = "idle"
  /\ nCancels = 0
  /\ reported = <<>>
  /\ \E earlier \in EarlierRuns :
       /\ nStarts = IF earlier = "none" THEN 0 ELSE 1
       /\ activeRun = IF earlier \in {"running", "cancelled"} THEN 1 ELSE 0
       /\ runs = [r \in 1..MaxStarts |-> IF r = 1 THEN EarlierRun(earlier) ELSE IdleRun]

NextStart ==
  \/ StartExportArrives
  \/ HandleStartExportPersist
  \/ HandleStartExportTab
  \/ SendRunExportMessage
  \/ InjectContentScript
  \/ ResendRunExportMessage

SpecStart == InitStart /\ [][NextStart]_vars

\* ------------------------------------------- executeExport under fair scheduling
\* How the earlier export of the page ended, when the START_EXPORT under
\* observation is sent: its download was confirmed; it ended in error and left its
\* checkpoint; it was cancelled and its executeExport is still fetching.
EarlierExports == {"downloaded", "failed", "cancelled"}

EarlierPhases(earlier) ==
  IF earlier = "cancelled" THEN <<"init", "discovering", "exporting">>
  ELSE IF earlier = "failed" THEN <<"init", "discovering", "exporting", "packaging", "error">>
  ELSE <<"init", "discovering", "exporting", "packaging", "done">>

InitLive ==
  /\ LibIdle
  /\ pendingGet = EmptyBag
  /\ pendingSet = EmptyBag
  /\ pendingRemove = 0
  /\ start = IdleStart
  /\ cancel = "idle"
  /\ nStarts = 1
  /\ \E earlier \in EarlierExports :
       /\ resumeState = IF earlier = "failed"
                          THEN [status |-> "in_progress", allIds |-> AllIdsList,
                                completedIds |-> SubSeq(AllIdsList, 1, NumIds - 1)]
                          ELSE NoState
       /\ nCancels = IF earlier = "cancelled" THEN 1 ELSE 0
       /\ activeRun = IF earlier = "cancelled" THEN 1 ELSE 0
       /\ runs = [r \in 1..MaxStarts |->
                    IF r > 1 THEN IdleRun
                    ELSE IF earlier = "cancelled" THEN RunningRun(TRUE) ELSE Finished]
       /\ reported = [r \in 1..MaxStarts |-> IF r = 1 THEN EarlierPhases(earlier) ELSE <<>>]

\* what executeExport of run r awaits returns or fails: discoverConversations,
\* GET_RESUME_STATE, loadConversationForExport, fetchConversationImages,
\* GET_PREFERENCES, packageZip, blobToDataUrl, TRIGGER_DOWNLOAD
AwaitReturns(r) ==
  \/ DiscoverDone(r)
  \/ ResumeStateDone(r)
  \/ FetchDone(r)
  \/ ImagesDone(r)
  \/ PrefsDone(r)
  \/ PackageDone(r)
  \/ DataUrlDone(r)
  \/ DownloadCallback(r)
  \/ DownloadDone(r)

\* every await of a run returns or fails, and every storage call of an
\* EXPORT_PROGRESS handler completes
Fairness ==
  /\ \A r \in 1..MaxStarts : SF_vars(AwaitReturns(r))
  /\ WF_vars(\E p \in BagToSet(pendingGet) : ProgressGet(p))
  /\ WF_vars(\E state \in BagToSet(pendingSet) : ProgressSet(state))

SpecLive == InitLive /\ [][Next]_vars /\ Fairness

\* ------------------------------- content script: loadConversationForExport in a batch
\* The page displays one conversation (shown; 0: none is rendered) while the loop of
\* executeExport loads the conversations of metas one after the other.  Messages
\* are represented by the conversation they were extracted from.
NoneShown == 0

\* records.push({conversation, images}): conversation.id, and whose messages it holds
LoadedRecord(id, from) == [id |-> id, from |-> from]

\* the loop goes on to the next conversation with one more record
Loaded(id, from) ==
  [call EXCEPT !.pc = "api", !.i = @ + 1, !.records = Append(@, LoadedRecord(id, from))]

\* the inner catch lists the conversation as a failure
NotLoaded(id) == [call EXCEPT !.pc = "api", !.i = @ + 1, !.failures = Append(@, id)]

\* fetchAndNormalizeConversation, the try block: the payload of conversation id,
\* normalized and validated, is returned if it has messages
LoadFromApi ==
  /\ call.pc = "api"
  /\ call.i <= Len(call.metas)
  /\ LET id == call.metas[call.i]
     IN  call' = IF id \in call.apiOk THEN Loaded(id, id) ELSE [call EXCEPT !.pc = "dom"]
  /\ UNCHANGED <<coordVars, extractVars>>

\* fetchAndNormalizeConversation, after the try block: extractConversationFromDom(id)
\* reads the message elements of the document, whichever conversation they
\* belong to, and the result is returned under id; without elements it throws, and
\* loadConversationForExport rethrows unless the navigation fallback is allowed
LoadFromDom ==
  /\ call.pc = "dom"
  /\ LET id == call.metas[call.i]
     IN  call' = IF call.shown # NoneShown THEN Loaded(id, call.shown)
                 ELSE IF call.allowNavigationFallback THEN [call EXCEPT !.pc = "navigate"]
                 ELSE NotLoaded(id)
  /\ UNCHANGED <<coordVars, extractVars>>

\* loadConversationForExport, the catch: navigateToConversation throws without a
\* sidebar link or on a timeout; else the page shows conversation id and
\* extractConversationFromActiveDom(id) reads it
LoadByNavigation ==
  /\ call.pc = "navigate"
  /\ LET id == call.metas[call.i]
     IN  \E timedOut \in BOOLEAN :
           call' = IF id \notin call.sidebar \/ timedOut THEN NotLoaded(id)
                   ELSE [Loaded(id, id) EXCEPT !.shown = id]
  /\ UNCHANGED <<coordVars, extractVars>>

InitBatch ==
  /\ CoordIdle
  /\ ExtractIdle
  /\ call \in {[pc |-> "api", metas |-> ms, i |-> 1, shown |-> sh, apiOk |-> ok,
                sidebar |-> sb, allowNavigationFallback |-> nav,
                records |-> <<>>, failures |-> <<>>] :
                 ms \in IdLists, sh \in {NoneShown} \cup Ids, ok \in SUBSET Ids,
                 sb \in SUBSET Ids, nav \in BOOLEAN}

NextBatch == LoadFromApi \/ LoadFromDom \/ LoadByNavigation

SpecBatch == InitBatch /\ [][NextBatch]_vars

\* ------------------------------------------------------------------ claims
RunIds == 1..MaxStarts

InLoop == {"fetching", "images"}

AfterLoop == {"awaitPrefs", "packaging", "dataurl", "awaitDownload", "answered"}

\* the ids of metas[1..upto] that the loop does not skip
RECURSIVE Unskipped(_, _)
Unskipped(rn, upto) ==
  IF upto = 0 THEN <<>>
  ELSE LET before == Unskipped(rn, upto - 1)
       IN  IF rn.metas[upto] \in rn.completedIds THEN before
           ELSE Append(before, rn.metas[upto])

\* the items whose iteration is over
Processed(rn) == Unskipped(rn, IF rn.pc \in InLoop THEN rn.i - 1 ELSE Len(rn.metas))

RECURSIVE FailuresOf(_, _)
FailuresOf(rn, ids) ==
  IF ids = <<>> THEN <<>>
  ELSE IF Head(ids) \in rn.failing
    THEN <<FailureRecord(Head(ids), FetchError)>> \o FailuresOf(rn, Tail(ids))
    ELSE FailuresOf(rn, Tail(ids))

C1_Books ==
  \A r \in RunIds :
    (runs[r].pc \in InLoop \cup AfterLoop /\ ~runs[r].cancelled) =>
      /\ runs[r].failures = FailuresOf(runs[r], Processed(runs[r]))
      /\ runs[r].records = SelectSeq(Processed(runs[r]), LAMBDA id : id \notin runs[r].failing)
      /\ runs[r].pc \in InLoop => runs[r].metas[runs[r].i] \notin runs[r].completedIds

C1_NoAbort ==
  \A r \in RunIds :
    (runs[r].pc \in InLoop /\ ~runs[r].cancelled) =>
      runs'[r].pc \in InLoop \cup {"awaitPrefs"}

\* C1: without cancellation, a failing fetch is recorded as a failure entry (id,
\* title, error text), every later id that is not skipped as completed is still
\* attempted, and the loop ends in packaging: no item's failure ends the run.
C1_FailureIsolation == []C1_Books /\ [][C1_NoAbort]_vars

\* a run reached packaging although its first conversation failed, and exported a later one
C1_Witness ==
  \E r \in RunIds :
    /\ runs[r].pc = "awaitPrefs"
    /\ ~runs[r].cancelled
    /\ Len(runs[r].failures) >= 1
    /\ Len(runs[r].records) >= 1
    /\ runs[r].failures[1].id = runs[r].metas[1]
    /\ runs[r].failures[1].title = "Untitled Chat"

\* C2: at most one executeExport is active in the page at any time.
C2_SingleActiveRun == Cardinality({r \in RunIds : runs[r].pc \in Active}) <= 1

\* C3: a resumed run attempts no id that the checkpoint it resumes from lists as completed.
C3_ResumeSkipsCompleted ==
  \A r \in RunIds :
    (runs[r].resumed /\ runs[r].pc \in InLoop) =>
      runs[r].metas[runs[r].i] \notin Range(runs[r].checkpoint.completedIds)

\* C4: the archive of a resumed run in which no item fails has one entry for every
\* id of the list, like an uninterrupted run over that list.
C4_ResumeEquivalence ==
  \A r \in RunIds :
    (runs[r].resumed /\ runs[r].pc \in {"dataurl", "awaitDownload"} /\ runs[r].failures = <<>>) =>
      runs[r].records = runs[r].metas

ErrorsSent == CopiesIn(Progress("error"), pendingGet)

C5_Step ==
  /\ (cancel = "remove" /\ cancel' = "stop") => resumeState' = NoState
  /\ \A r \in RunIds :
       (runs[r].cancelled /\ runs'[r] # runs[r]) =>
         /\ resumeState' = resumeState
         /\ (runs'[r].pc = "finished" /\ runs[r].pc # "answered") => ErrorsSent' = ErrorsSent + 1

C6_CheckpointNotLost ==
  (nStarts = 1 /\ nCancels = 0 /\ start.stage = "idle" /\ InFlight = 0 /\ resumeState # NoState) =>
    \A r \in RunIds :
      runs[r].pc \in InLoop \cup AfterLoop =>
        Range(runs[r].records) \subseteq Range(resumeState.completedIds)

C7_Step ==
  /\ (resumeState # NoState /\ resumeState' = NoState) =>
       \/ cancel = "remove" /\ cancel' = "stop"
       \/ pendingRemove > 0 /\ pendingRemove' = pendingRemove - 1
  /\ pendingRemove' > pendingRemove =>
       \E r \in RunIds :
         /\ runs[r].pc = "awaitDownload"
         /\ runs'[r].pc = "answered"
         /\ runs'[r].downloadOk

\* C7: apart from CANCEL_EXPORT, the persisted resume state is removed only by the
\* storage.remove that the download callback issues when the download has started
\* without lastError; no other step of a run removes it or issues a remove.
C7_ClearedOnlyAfterDownload == [][C7_Step]_vars

\* the download was confirmed and its remove has cleared the state, no cancel involved
C7_Witness ==
  /\ nCancels = 0
  /\ pendingRemove = 0
  /\ resumeState = NoState
  /\ \E r \in RunIds : runs[r].pc = "answered" /\ runs[r].downloadOk

C8_Step ==
  \A r \in RunIds :
    runs[r].cancelled =>
      /\ runs'[r].pc \in Active => runs'[r].cancelled
      /\ runs'[r].pc = "fetching" => (runs[r].pc = "fetching" /\ runs'[r].i = runs[r].i)
      /\ runs'[r].pc = "packaging" => runs[r].pc = "packaging"
      /\ runs'[r].pc = "awaitDownload" => runs[r].pc = "awaitDownload"

\* C8: once the token's cancelled flag is set, the run starts no further conversation
\* fetch, does not call packageZip and does not send TRIGGER_DOWNLOAD.
C8_PolledCancellation == [][C8_Step]_vars

\* cancelled during the last item: the item ended as a failure, packageZip is still ahead
C8_Witness ==
  \E r \in RunIds :
    /\ runs[r].cancelled
    /\ runs[r].pc = "awaitPrefs"
    /\ \E k \in 1..Len(runs[r].failures) : runs[r].failures[k].error = CancelError

\* C9: from the first attempted conversation on, the persisted allIds is the
\* discovered list (one start, no cancel, state not yet cleared by the download).
C9_AllIdsPersisted ==
  (nStarts = 1 /\ nCancels = 0) =>
    \A r \in RunIds :
      runs[r].pc \in InLoop \cup {"awaitPrefs", "packaging", "dataurl", "awaitDownload"} =>
        resumeState.allIds = runs[r].metas

\* C10: a resumed run does not run discovery; it works on the checkpoint's allIds.
C10_ResumeUsesStoredList ==
  \A r \in RunIds :
    runs[r].resumed =>
      /\ runs[r].pc # "discovering"
      /\ runs[r].pc \in InLoop \cup AfterLoop => runs[r].metas = runs[r].checkpoint.allIds

\* the page offers no valid message, neither in the API payload nor in the DOM
ZeroValidMessages ==
  /\ page.api = "ok"
  /\ ValidateMessages(ExtractMessages(LinearMapping(page.nodes))) = <<>>
  /\ ExtractConversationFromDom(page.dom) = <<>>

\* C11: a conversation that yields zero valid messages is not listed as a failure.
C11_EmptyIsNotFailure == ZeroValidMessages => fetched.status # "failed"

\* C20: no conversation returned by fetchAndNormalizeConversation holds a message
\* with zero parts or a message with role system.
C20_ReturnedMessagesValid ==
  fetched.status \in {"returned", "loaded"} =>
    \A k \in 1..Len(fetched.messages) :
      fetched.messages[k].parts > 0 /\ fetched.messages[k].role # "system"

C12_Step ==
  \A r \in RunIds :
    (runs[r].pc = "packaging" /\ runs'[r].pc = "finished") =>
      /\ pendingGet' = pendingGet (+) SetToBag({Progress("error")})
      /\ resumeState' = resumeState
      /\ pendingSet' = pendingSet
      /\ pendingRemove' = pendingRemove

\* C12: when packageZip rejects, the run ends on that step, having sent exactly one
\* progress event, of phase error, and no TRIGGER_DOWNLOAD; the step leaves the
\* persisted resume state alone and issues no storage write or remove, and the
\* service worker's handling of the error event writes the state back as it read it.
C12_CatastrophicFailure ==
  /\ [](ApplyProgress(resumeState, Progress("error")) = resumeState)
  /\ [][C12_Step]_vars

\* packageZip has rejected in a run without cancel: the error event is under way
\* and the checkpoint still lists the exported conversation
C12_Witness ==
  /\ nStarts = 1
  /\ nCancels = 0
  /\ runs[1].pc = "finished"
  /\ CopiesIn(Progress("error"), pendingGet) = 1
  /\ resumeState.completedIds # <<>>

\* what packageZip(records, formats, template, failures) is handed by run rn
SummaryOf(rn) == BuildSummaryReport(rn.records, rn.failures)

\* the ids the loop of rn has attempted
Attempted(rn) == Range(rn.metas) \ rn.completedIds

LinesFor(rn, id) == {k \in 1..Len(SummaryOf(rn).lines) : SummaryOf(rn).lines[k].id = id}

C14_AssetFailureIsNotItemFailure ==
  /\ rendered.pc # "failed"
  /\ rendered.pc = "rendered" =>
       \A k \in 1..Len(assets.parts) :
         assets.parts[k] # 0 =>
           rendered.html[k] = IF assets.outcome[assets.parts[k]] = "bytes"
                                THEN "img" ELSE "placeholder"

\* a rendered conversation with an unresolved, a rejected and a resolved asset
C14_Witness ==
  /\ rendered.pc = "rendered"
  /\ \E j, k \in 1..Len(assets.parts) :
       /\ rendered.html[j] = "placeholder"
       /\ rendered.html[k] = "img"
  /\ \E a \in AssetIds : a \in Range(assets.parts) /\ assets.outcome[a] = "throw"

PhaseRank(phase) ==
  CASE phase = "init" -> 1
    [] phase = "discovering" -> 2
    [] phase = "exporting" -> 3
    [] phase = "packaging" -> 4
    [] OTHER -> 5

\* C15: the phases a run reports, repetitions of a non-terminal phase aside, go
\* strictly forward in the order init, discovering, exporting, packaging, done,
\* with error taking the place of a later phase; done or error is reported at
\* most once and nothing is reported after it; a run reports nothing once it has
\* returned.
C15_PhaseOrder ==
  \A r \in DOMAIN reported :
    /\ \A k \in 1..Len(reported[r]) - 1 :
         /\ PhaseRank(reported[r][k]) < PhaseRank(reported[r][k + 1])
         /\ reported[r][k] \notin Terminal
    /\ runs[r].pc = "finished" =>
         reported[r] # <<>> /\ reported[r][Len(reported[r])] \in Terminal
    /\ runs[r].pc \in Active =>
         reported[r] # <<>> /\ reported[r][Len(reported[r])] \notin Terminal
    /\ runs[r].pc = "idle" => reported[r] = <<>>

\* a run went through all phases up to packaging and ended in error
C15_Witness ==
  \E r \in DOMAIN reported :
    reported[r] = <<"init", "discovering", "exporting", "packaging", "error">>

\* C16: once the download has been confirmed, its storage.remove has landed and every
\* EXPORT_PROGRESS handler has finished, no resume state is left in storage
\* (one start, no cancel).
C16_ClearedAfterCompletion ==
  ( /\ nStarts = 1
    /\ nCancels = 0
    /\ runs[1].pc = "answered"
    /\ runs[1].downloadOk
    /\ pendingRemove = 0
    /\ InFlight = 0 )
  => resumeState = NoState

\* parent and children links agree, one root, and every node hangs under the root
ParentOf(m, n) == m[n].parent

RECURSIVE Ancestors(_, _, _)
Ancestors(m, n, k) ==
  IF k = 0 \/ ParentOf(m, n) = 0 THEN {}
  ELSE {ParentOf(m, n)} \cup Ancestors(m, ParentOf(m, n), k - 1)

IsTree(m) ==
  /\ Cardinality({n \in DOMAIN m : ParentOf(m, n) = 0}) = 1
  /\ \A n \in DOMAIN m : \A c \in Range(m[n].children) : ParentOf(m, c) = n
  /\ \A n \in DOMAIN m : ParentOf(m, n) # 0 => n \in Range(m[ParentOf(m, n)].children)
  /\ \A n \in DOMAIN m : n \notin Ancestors(m, n, Len(m))

IsLinear(m) == IsTree(m) /\ \A n \in DOMAIN m : Len(m[n].children) <= 1

RootOf(m) == CHOOSE n \in DOMAIN m : ParentOf(m, n) = 0

\* the nodes from n down, taking at each node the child listed last
RECURSIVE LatestPath(_, _)
LatestPath(m, n) ==
  IF m[n].children = <<>> THEN <<n>>
  ELSE <<n>> \o LatestPath(m, m[n].children[Len(m[n].children)])

MessageIds(msgs) == [k \in 1..Len(msgs) |-> msgs[k].id]

HasMessage(m, n) == m[n].kind = "text"

\* C17: for a mapping that is a tree, the messages returned are those of the nodes on
\* the path from the root through the last child of every node, in that order; for
\* a node with children [A, B] nothing of the subtree of A is in the output.
C17_FollowsLastChild ==
  (walk.pc = "done" /\ IsTree(mapping)) =>
    /\ MessageIds(walk.ordered) =
         SelectSeq(LatestPath(mapping, RootOf(mapping)), LAMBDA n : HasMessage(mapping, n))
    /\ \A n \in DOMAIN mapping :
         Len(mapping[n].children) = 2 =>
           \A x \in DOMAIN mapping :
             (x = mapping[n].children[1] \/ mapping[n].children[1] \in Ancestors(mapping, x, NumNodes))
               => x \notin Range(MessageIds(walk.ordered))

\* root with children [A, B], all three with a message: the output is root, B
C17_Witness ==
  /\ walk.pc = "done"
  /\ IsTree(mapping)
  /\ Len(mapping[RootOf(mapping)].children) = 2
  /\ \A n \in DOMAIN mapping : HasMessage(mapping, n)
  /\ Len(walk.ordered) = 2

\* C18 as claimed: for a linear mapping the output is, in path order, exactly the
\* non-system nodes of the path.
C18_AllNonSystemNodes ==
  (walk.pc = "done" /\ IsLinear(mapping)) =>
    MessageIds(walk.ordered) =
      SelectSeq(LatestPath(mapping, RootOf(mapping)), LAMBDA n : mapping[n].kind # "system")

\* C18 amended: for a linear mapping the output is, in path order, exactly the nodes
\* of the path that carry a non-system message with at least one content part.
C18_PathOrder ==
  (walk.pc = "done" /\ IsLinear(mapping)) =>
    MessageIds(walk.ordered) =
      SelectSeq(LatestPath(mapping, RootOf(mapping)), LAMBDA n : HasMessage(mapping, n))

\* a chain of a node without message, a system node and a user message
C18_Witness ==
  /\ walk.pc = "done"
  /\ IsLinear(mapping)
  /\ \E a, b, c \in DOMAIN mapping :
       /\ LatestPath(mapping, RootOf(mapping)) = <<a, b, c>>
       /\ mapping[a].kind = "none"
       /\ mapping[b].kind = "system"
       /\ MessageIds(walk.ordered) = <<c>>

NoRepeat(q) == \A j, k \in 1..Len(q) : q[j] = q[k] => j = k

\* calls and loop iterations still possible: falls with every step
WalkMeasure ==
  2 * (NumNodes - Len(walk.trail)) + 2 * Len(walk.roots)
    + (IF walk.pc = "walk" THEN 2 ELSE IF walk.pc = "roots" THEN 1 ELSE 0)

C19_Visited ==
  /\ NoRepeat(walk.trail)
  /\ NoRepeat(MessageIds(walk.ordered))
  /\ WalkMeasure >= 0
  /\ walk.pc = "done" => walk.ordered = ExtractMessages(mapping)

\* C19: for every mapping, whatever its links (cycles, shared children, several roots),
\* extractMessages visits no node twice and no node contributes two messages, and
\* every step of the walk lowers a measure that is never negative, so the walk ends.
C19_TerminatesVisitingOnce ==
  /\ []C19_Visited
  /\ [][walk' # walk => WalkMeasure' < WalkMeasure]_vars

\* the walk came back to a node it had visited: a visited node's last child is
\* earlier on the trail
C19_Witness ==
  /\ walk.pc = "done"
  /\ \E j, k \in 1..Len(walk.trail) :
       j < k /\ LastChild(mapping[walk.trail[k]]) = walk.trail[j]

\* C21: every part extractContentParts returns is a text, code or image part; the
\* browsing-snippet content types and every content_type the function does not
\* name give no part; no text or code part has a blank text.
C21_PartKinds ==
  call.pc = "returned" =>
    /\ \A k \in 1..Len(call.parts) :
         /\ call.parts[k].type \in {"text", "code", "image"}
         /\ call.parts[k].type \in {"text", "code"} => Trim(call.parts[k].text) # <<>>
    /\ (call.content.t = "object"
          /\ call.content.content_type \in {"tether_browsing_display", "tether_quote", "other"})
         => call.parts = <<>>

\* a multimodal content with a blank string and an image pointer: one image part
C21_Witness ==
  /\ call.pc = "returned"
  /\ call.content.content_type = "multimodal_text"
  /\ Len(call.content.parts) = 2
  /\ call.content.parts[1].t = "string"
  /\ call.content.parts[1].s = <<Blank>>
  /\ Len(call.parts) = 1
  /\ call.parts[1].type = "image"

Validated(conv) ==
  /\ conv.id.s # ""
  /\ conv.title # ""
  /\ conv.isArray
  /\ \A k \in 1..Len(conv.messages) : conv.messages[k].parts > 0

\* C22: validateConversation applied to its own result returns that result, whenever
\* the second call is made; the result of either call has a non-empty id, a non-empty
\* title and only messages with at least one part.
C22_ValidateIdempotent ==
  /\ call.pc \in {"once", "twice"} => Validated(call.once)
  /\ call.pc = "twice" => call.twice = call.once /\ Validated(call.twice)

\* a conversation without id or title, with a message without parts, validated again
\* at a later time
C22_Witness ==
  /\ call.pc = "twice"
  /\ call.conv.id.s = ""
  /\ call.conv.title = ""
  /\ \E k \in 1..Len(call.conv.messages) : call.conv.messages[k].parts = 0
  /\ Len(call.once.messages) = 1
  /\ call.once.id.now < call.now

\* C24: slugify applied to its own output returns that output.
C24_SlugifyIdempotent == call.pc = "twice" => call.again = call.slug

\* a text that slugify changes (case, accent, a run of blanks, hyphens at the ends)
C24_Witness ==
  /\ call.pc = "twice"
  /\ call.text = <<"B", Blank, "-", Accented>>
  /\ call.slug = <<"b", "-", "e">>

\* C25: the output of slugify has at most 80 characters, all of them lower-case
\* letters, digits or hyphens, and has no hyphen at either end, also when the
\* 80th character of the uncut slug is a hyphen.
C25_SlugShape ==
  call.pc \in {"slugged", "twice"} =>
    /\ Len(call.slug) <= SlugMax
    /\ \A k \in 1..Len(call.slug) : IsLowerAlnum(call.slug[k]) \/ call.slug[k] = "-"
    /\ call.slug # <<>> => call.slug[1] # "-" /\ call.slug[Len(call.slug)] # "-"

\* the cut falls on a hyphen
C25_Witness ==
  /\ call.pc = "slugged"
  /\ Len(Unsliced(call.text)) > SlugMax
  /\ Unsliced(call.text)[SlugMax] = "-"
  /\ Len(call.slug) = SlugMax - 1

Suffixed(base, k) == IF k = 1 THEN base ELSE base \o <<"-">> \o Decimal(k)

NamesDistinct == \A j, k \in 1..Len(call.names) : call.names[j] = call.names[k] => j = k

\* C23 as claimed: the names returned are pairwise distinct, and when all calls have
\* the same template and title the k-th name is the first base name, with -k
\* appended for k > 1.
C23_SameTitleSuffixes ==
  /\ NamesDistinct
  /\ (\A k \in 1..Len(call.args) :
        call.args[k].template = call.args[1].template /\ call.args[k].title = call.args[1].title)
       => \A k \in 1..Len(call.names) : call.names[k] = Suffixed(call.args[1].base, k)

\* C23 amended: the names returned are pairwise distinct, and when all calls have the
\* same base name (same template and same title, date and id as far as the template
\* uses them) the k-th name is the base name, with -k appended for k > 1.
C23_SameBaseSuffixes ==
  /\ NamesDistinct
  /\ (\A k \in 1..Len(call.args) : call.args[k].base = call.args[1].base)
       => \A k \in 1..Len(call.names) : call.names[k] = Suffixed(call.args[1].base, k)

\* three calls with the same base name
C23_Witness ==
  /\ Len(call.names) = 3
  /\ \A k \in 1..3 : call.args[k].base = call.args[1].base
  /\ call.names[3] = call.args[1].base \o <<"-", "3">>

\* the characters < and > of the conversation, as opposed to the renderer's markup
RawMarkup == {"<", ">"}

\* C26: no rendered HTML document has a < or > that comes from a string of the
\* conversation (title, text, code, language, role, assetId): all are escaped.
C26_NoRawMarkup ==
  call.pc = "rendered" => \A k \in 1..Len(call.html) : call.html[k] \notin RawMarkup

\* the same for conversations without an embedded image
C26_EscapedWithoutEmbeddedImage ==
  (call.pc = "rendered" /\ call.images = <<>>) =>
    \A k \in 1..Len(call.html) : call.html[k] \notin RawMarkup

C27_SameText ==
  call.pc = "rendering" =>
    \A r \in Renderers : Len(call.out[r]) = 2 => call.out[r][1] = call.out[r][2]

Contains(text, sub) ==
  \E i \in 0..(Len(text) - Len(sub)) : SubSeq(text, i + 1, i + Len(sub)) = sub

\* JSON.parse of the string that starts at text[i]: the characters up to the closing
\* quote, with the escapes undone
RECURSIVE ParseJsonString(_, _)
ParseJsonString(text, i) ==
  IF i > Len(text) \/ text[i] = "\"" THEN <<>>
  ELSE IF text[i] = "\\"
    THEN <<IF text[i + 1] = "n" THEN "\n" ELSE text[i + 1]>> \o ParseJsonString(text, i + 2)
  ELSE <<text[i]>> \o ParseJsonString(text, i + 1)

\* the strings that follow the key in the JSON text, in order
JsonValues(text, key) ==
  LET at == SelectSeq([i \in 1..Len(text) |-> i], LAMBDA i : text[i] = key)
  IN  [k \in 1..Len(at) |-> ParseJsonString(text, at[k] + 2)]

CodePartsOf(message) == {message.parts[k] : k \in {j \in 1..Len(message.parts) : message.parts[j].type = "code"}}

\* C28: for a code part with language L and text T the Markdown document has the lines
\* fence L, T and fence, and the content string of the message in the JSON document has
\* fence L, where fence is three backticks; the JSON messages are the conversation's messages, one each, in order.
C28_CodeFences ==
  (call.pc = "rendering" /\ call.out["json"] # <<>> /\ call.out["markdown"] # <<>>) =>
    LET json     == call.out["json"][1]
        md       == call.out["markdown"][1]
        messages == call.conversation.messages
    IN  /\ Tail(JsonValues(json, "\"id\": ")) = [k \in 1..Len(messages) |-> messages[k].id]
        /\ Len(JsonValues(json, "\"content\": ")) = Len(messages)
        /\ \A k \in 1..Len(messages) : \A part \in CodePartsOf(messages[k]) :
             /\ Contains(md, <<"\n", Fence>> \o part.language \o <<"\n">> \o part.text
                               \o <<"\n", Fence, "\n">>)
             /\ Contains(JsonValues(json, "\"content\": ")[k], <<Fence>> \o part.language)

\* a python block whose text has a quote, in the second message
C28_Witness ==
  /\ call.pc = "rendering"
  /\ call.out["json"] # <<>>
  /\ call.out["markdown"] # <<>>
  /\ Len(call.conversation.messages) = 2
  /\ call.conversation.messages[2].parts[1] = CodePart(<<"p", "y">>, <<"a", "\"">>)

\* the writes into the archive that are of a kind
FilesOfKind(kind) == {k \in 1..Len(call.zip) : call.zip[k].kind = kind}

\* C29: the finished archive has exactly one index, at the top level, with one entry
\* per record in record order, and exactly one summary report, whatever formats
\* were chosen.
C29_OneIndexOneSummary ==
  call.pc = "packaged" =>
    /\ Cardinality(FilesOfKind("summary")) = 1
    /\ Cardinality(FilesOfKind("index")) = 1
    /\ \A k \in FilesOfKind("index") :
         /\ call.zip[k].path = RootFolder(call.today) \o <<"/index.html">>
         /\ [e \in 1..Len(call.zip[k].entries) |-> call.zip[k].entries[e].record]
              = [e \in 1..Len(call.records) |-> e]

\* the same when html is among the formats
C29_IndexWithHtml ==
  (call.pc = "packaged" /\ "html" \in call.formats) =>
    /\ Cardinality(FilesOfKind("summary")) = 1
    /\ Cardinality(FilesOfKind("index")) = 1
    /\ \A k \in FilesOfKind("index") :
         /\ call.zip[k].path = RootFolder(call.today) \o <<"/index.html">>
         /\ [e \in 1..Len(call.zip[k].entries) |-> call.zip[k].entries[e].record]
              = [e \in 1..Len(call.records) |-> e]

\* s begins with prefix
StartsWith(s, prefix) == Len(s) >= Len(prefix) /\ SubSeq(s, 1, Len(prefix)) = prefix

HasGroupName(conversation) == conversation.customGptName \notin {NullString, <<>>}

\* C30: every html, markdown and json file of a record is written under
\* custom-gpts/<slug of the name>/ if the conversation has a custom GPT name, and
\* under chats/ if it has none.
C30_GroupFolders ==
  \A k \in 1..Len(call.zip) :
    call.zip[k].kind \in {"html", "markdown", "json"} =>
      LET conv == call.records[call.zip[k].record].conversation
          root == RootFolder(call.today) \o <<"/">>
      IN  IF HasGroupName(conv)
            THEN /\ StartsWith(call.zip[k].path,
                               root \o <<"custom-gpts/">> \o Slugify(conv.customGptName) \o <<"/">>)
                 /\ ~StartsWith(call.zip[k].path, root \o <<"chats/">>)
            ELSE /\ StartsWith(call.zip[k].path, root \o <<"chats/">>)
                 /\ ~StartsWith(call.zip[k].path, root \o <<"custom-gpts/">>)

\* a batch of a custom GPT conversation and a plain one, in all three formats
C30_Witness ==
  /\ call.pc = "packaged"
  /\ call.formats = {"html", "markdown", "json"}
  /\ Len(call.records) = 2
  /\ call.records[1].conversation.customGptName = <<"B", Blank, "a">>
  /\ call.records[2].conversation.customGptName = NullString
  /\ \E k \in 1..Len(call.zip) :
       StartsWith(call.zip[k].path,
                  RootFolder(call.today) \o <<"/", "custom-gpts/", "b", "-", "a", "/">>)

C32_Step ==
  \A r \in DOMAIN reported :
    (runs[r].pc # "finished" /\ runs'[r].pc = "finished"
       /\ reported'[r][Len(reported'[r])] = "done")
      => (runs[r].pc = "answered" /\ runs[r].downloadOk)

\* C32: a run ends with the progress event done only from the answer to
\* TRIGGER_DOWNLOAD, and only when that answer was ok: a run whose download request
\* was answered ok:false does not report done.
C32_DoneOnlyAfterConfirmedDownload == [][C32_Step]_vars

\* the list positions the loop skips as already completed
SkippedPositions(rn) == {j \in 1..Len(rn.metas) : rn.metas[j] \in rn.completedIds}

FailureIds(rn) == {rn.failures[k].id : k \in 1..Len(rn.failures)}

C34_CompletedIdsOwned ==
  \A r \in RunIds :
    ( /\ activeRun = r
      /\ nStarts = r
      /\ start.stage = "idle"
      /\ runs[r].pc \in Active
      /\ resumeState # NoState )
    => /\ Range(resumeState.completedIds) \subseteq Range(runs[r].records)
       /\ NoRepeat(resumeState.completedIds)

\* the runs RUN_EXPORT has accepted
Accepted == {r \in RunIds : runs[r].pc # "idle"}

C38_Slot ==
  activeRun # 0 =>
    /\ runs[activeRun].pc \in Active
    /\ \A r \in Accepted : r <= activeRun

C38_Step ==
  /\ \A r \in RunIds :
       (runs[r].pc \in Active /\ runs'[r].pc = "finished") =>
         activeRun' = IF activeRun = r THEN 0 ELSE activeRun
  /\ (activeRun # 0 /\ activeRun' = 0) => runs'[activeRun].pc = "finished"
  /\ (activeRun' # activeRun /\ activeRun' # 0) =>
       (runs[activeRun'].pc = "idle" /\ runs'[activeRun'].pc \in Active)

\* C38: activeRun, when not null, is a run that is still executing and is the last
\* run RUN_EXPORT accepted; a run that returns clears the slot if the slot is its
\* own and leaves it alone otherwise; the slot is set only when a run is accepted.
C38_SlotConsistent == []C38_Slot /\ [][C38_Step]_vars

\* the first run, cancelled, has returned with its error event still on its way,
\* while the second run holds the slot
C38_Witness ==
  /\ activeRun = 2
  /\ runs[2].pc \in Active
  /\ runs[1].pc = "finished"
  /\ CopiesIn(Progress("error"), pendingGet) = 1

\* C35: a START_EXPORT that has been answered without a run having started has left
\* the persisted resume state as it was when the request arrived, and its answer
\* to the popup is not ok.
C35_FailedStartLeavesState ==
  (call.pc = "answered" /\ ~call.started) =>
    /\ resumeState = call.before
    /\ call.answer = "not ok"

\* the two cases without a tab or a reachable content script are answered not ok
C35_UnreachableAnsweredNotOk ==
  (call.pc = "answered" /\ ~call.started /\ call.answer = "ok") =>
    (activeRun # 0 /\ ~runs[activeRun].cancelled)

TerminalEvents(r) == {k \in 1..Len(reported[r]) : reported[r][k] \in Terminal}

\* run r has returned, its last progress event was its one done or error, and the
\* slot does not refer to it
C39_Returned(r) ==
  /\ runs[r].pc = "finished"
  /\ Cardinality(TerminalEvents(r)) = 1
  /\ reported[r][Len(reported[r])] \in Terminal
  /\ activeRun # r

\* C39: under fair scheduling every executeExport that RUN_EXPORT has started
\* returns after it has sent exactly one terminal progress event, done or error,
\* with or without a STOP_EXPORT on the way, and activeRun then no longer refers to it.
C39_EveryRunEnds == \A r \in RunIds : (runs[r].pc \in Active) ~> C39_Returned(r)

\* the observed run was stopped in its loop and has ended with the error event,
\* leaving the slot free
C39_Witness ==
  /\ nStarts = 2
  /\ nCancels = 1
  /\ runs[1].pc = "finished"
  /\ reported[1][Len(reported[1])] = "done"
  /\ C39_Returned(2)
  /\ reported[2] = <<"init", "discovering", "exporting", "error">>
  /\ activeRun = 0

\* C36: every record of the batch holds the messages of the conversation whose id
\* it carries.
C36_RecordHoldsOwnConversation ==
  call.pc \in {"api", "dom", "navigate"} =>
    \A k \in 1..Len(call.records) : call.records[k].from = call.records[k].id

\* the same for the conversations the API answers with messages
C36_ApiRecordsOwnConversation ==
  call.pc \in {"api", "dom", "navigate"} =>
    \A k \in 1..Len(call.records) :
      call.records[k].id \in call.apiOk => call.records[k].from = call.records[k].id

\* the segments and separators a path element stands for
Expand(t) ==
  CASE t = "/images/" -> <<"/", "images", "/">>
    [] t = "./images/" -> <<".", "/", "images", "/">>
    [] t = "./" -> <<".", "/">>
    [] t = "chats/" -> <<"chats", "/">>
    [] t = "custom-gpts/" -> <<"custom-gpts", "/">>
    [] t = "/index.html" -> <<"/", "index.html">>
    [] t = "/export-summary.txt" -> <<"/", "export-summary.txt">>
    [] OTHER -> <<t>>

\* a path or a relative URL as its segments and separators
Segments(path) ==
  SelectSeq([n \in 1..(4 * Len(path)) |->
               LET e == Expand(path[((n - 1) \div 4) + 1])
                   m == ((n - 1) % 4) + 1
               IN  IF m <= Len(e) THEN e[m] ELSE ""],
            LAMBDA x : x # "")

\* the folder of a file: its path up to the last separator
Folder(segments) ==
  IF "/" \notin Range(segments) THEN <<>>
  ELSE SubSeq(segments, 1,
              CHOOSE k \in 1..Len(segments) :
                segments[k] = "/" /\ \A j \in (k + 1)..Len(segments) : segments[j] # "/")

\* a URL without its leading ./
DropDot(segments) ==
  IF Len(segments) >= 2 /\ segments[1] = "." /\ segments[2] = "/"
    THEN SubSeq(segments, 3, Len(segments)) ELSE segments

\* the archive path a relative URL in the file at `path` points to
Resolve(path, url) == Folder(Segments(path)) \o DropDot(Segments(url))

\* s up to the first c
UpTo(s, c) ==
  IF c \notin Range(s) THEN s
  ELSE SubSeq(s, 1, (CHOOSE k \in 1..Len(s) : s[k] = c /\ \A j \in 1..(k - 1) : s[j] # c) - 1)

\* the URLs of the image references ![image](url) of a Markdown text
MarkdownImageUrls(text) ==
  {<<"./images/">> \o UpTo(SubSeq(text, k + 1, Len(text)), ")") :
     k \in {j \in 1..Len(text) : text[j] = "![image](./images/"}}

\* the relative URLs in a file of the archive
LinksOf(file) ==
  IF file.kind = "index" THEN UNION {file.text[e].links : e \in 1..Len(file.text)}
  ELSE IF file.kind = "markdown" THEN MarkdownImageUrls(file.text)
  ELSE {}

ArchivePaths == {Segments(call.zip[k].path) : k \in 1..Len(call.zip)}

LinksResolveIn(kinds) ==
  call.pc = "packaged" =>
    \A k \in 1..Len(call.zip) :
      call.zip[k].kind \in kinds =>
        \A url \in LinksOf(call.zip[k]) : Resolve(call.zip[k].path, url) \in ArchivePaths

\* C31: in the finished archive every link of index.html and every image reference
\* of a Markdown file, resolved against the folder of the file it is in, is the
\* path of a file of the archive.
C31_LinksResolve == LinksResolveIn({"index", "markdown"})

\* the same for the links of index.html alone
C31_IndexLinksResolve == LinksResolveIn({"index"})

\* C37: no two writes of one packageZip call have the same path.
C37_DistinctPaths ==
  \A j, k \in 1..Len(call.zip) :
    j # k => Segments(call.zip[j].path) # Segments(call.zip[k].path)

\* the same for the html, Markdown and JSON files, the index and the summary
C37_ArtifactPathsDistinct ==
  \A j, k \in 1..Len(call.zip) :
    (j # k /\ call.zip[j].kind # "image" /\ call.zip[k].kind # "image") =>
      Segments(call.zip[j].path) # Segments(call.zip[k].path)

====
